---- MODULE Spec2Model ----
(***************************************************************************)
(* The navigable parse tree of bs4/element.py: PageElement / Tag /         *)
(* NavigableString objects held in an arena of node handles, with the five *)
(* navigation relations and the child lists, the tree-mutation methods     *)
(* translated statement by statement and the traversal generators (Spec,   *)
(* SpecIter); and the match rules and the SoupStrainer of bs4/strainer.py  *)
(* (SpecStrainer); reads after decompose (SpecRead), find_all with the     *)
(* SoupStrainer of bs4/element.py (SpecFind) and Tag.decode (SpecDecode).  *)
(***************************************************************************)
EXTENDS Integers, Sequences, FiniteSets, TLC

\* ---------------------------------------------------------------- bounds
NumTags == 2
NumStrings == 3
MaxNeg == 2
MaxArgs == 2
MaxUnsoundCalls == 1
MaxMutations == 1
MaxDepth == 3

\* ---------------------------------------------------------------- objects
None == 0
NumNodes == NumTags + NumStrings
Nodes == 1 .. NumNodes
Tags == 1 .. NumTags

\* isinstance(x, Tag); every other node is a NavigableString
isTag(n) == n \in Tags
\* isinstance(x, PageElement): false of None only
isPageElement(x) == x \in Nodes

\* outcome markers of a call
Diverges == 0 - 1
NotFound == 0 - 1
NoIndex == 0 - 2

VARIABLES parent, previous_sibling, next_sibling, previous_element,
          next_element, contents, decomposed, last, pre, unsound_calls, it,
          strainer, reply, constructed

vars == <<parent, previous_sibling, next_sibling, previous_element,
          next_element, contents, decomposed, last, pre, unsound_calls, it,
          strainer, reply, constructed>>

\* the object graph as one value, so that a method is a function of it
Heap == [parent |-> parent, previous_sibling |-> previous_sibling,
         next_sibling |-> next_sibling, previous_element |-> previous_element,
         next_element |-> next_element, contents |-> contents,
         decomposed |-> decomposed]

\* obj.field = v
Set(h, field, obj, v) == [h EXCEPT ![field][obj] = v]

Ok(h) == [h |-> h, res |-> "ok"]
Raise(h) == [h |-> h, res |-> "error"]
Hang(h) == [h |-> h, res |-> "hang"]

\* ---------------------------------------------------------------- Python lists
Min(a, b) == IF a < b THEN a ELSE b
Max(a, b) == IF a > b THEN a ELSE b

\* s[i] is defined for -len <= i < len
PyIndexValid(s, i) == i >= -Len(s) /\ i < Len(s)
PyGet(s, i) == IF i >= 0 THEN s[i + 1] ELSE s[Len(s) + i + 1]
\* list.insert(i, x)
PyInsert(s, i, x) ==
    LET k == IF i < 0 THEN Max(i + Len(s), 0) ELSE Min(i, Len(s))
    IN SubSeq(s, 1, k) \o <<x>> \o SubSeq(s, k + 1, Len(s))
\* reversed(s)
Reverse(s) == [i \in 1 .. Len(s) |-> s[Len(s) + 1 - i]]
\* del s[i], 0 <= i < len
PyDel(s, i) == SubSeq(s, 1, i) \o SubSeq(s, i + 2, Len(s))

\* Tag.index: position of the child that `is` element, ValueError if absent
index(h, self, element) ==
    LET hits == {i \in 1 .. Len(h.contents[self]) : h.contents[self][i] = element}
    IN IF hits = {} THEN NotFound
       ELSE (CHOOSE i \in hits : \A j \in hits : i <= j) - 1

\* ---------------------------------------------------------------- _last_descendant
\* while isinstance(last_child, Tag) and last_child.contents:
\*     last_child = last_child.contents[-1]
RECURSIVE last_contents_walk(_, _, _)
last_contents_walk(h, last_child, fuel) ==
    IF isTag(last_child) /\ h.contents[last_child] # <<>>
    THEN IF fuel = 0 THEN Diverges
         ELSE last_contents_walk(h, PyGet(h.contents[last_child], -1), fuel - 1)
    ELSE last_child

_last_descendant(h, self, is_initialized, accept_self) ==
    LET last_child == IF is_initialized /\ h.next_sibling[self] # None
                      THEN h.previous_element[h.next_sibling[self]]
                      ELSE last_contents_walk(h, self, NumNodes)
    IN IF ~accept_self /\ last_child = self THEN None ELSE last_child

\* ---------------------------------------------------------------- extract
\* Each step of a method is an operator on the object graph it is handed, so
\* that every read is of the graph as the preceding statements left it.

\* if self.previous_element is not None:
\*     if self.previous_element is not next_element:
\*         self.previous_element.next_element = next_element
extract_bridge_forward(h, self, next_element_) ==
    IF h.previous_element[self] # None /\ h.previous_element[self] # next_element_
    THEN Set(h, "next_element", h.previous_element[self], next_element_)
    ELSE h

\* mutant: the element after the subtree keeps pointing into it
extract_bridge_back_skipped(h, self, next_element_) == h

\* if next_element is not None and next_element is not self.previous_element:
\*     next_element.previous_element = self.previous_element
extract_bridge_back(h, self, next_element_) ==
    IF next_element_ # None /\ next_element_ # h.previous_element[self]
    THEN Set(h, "previous_element", next_element_, h.previous_element[self])
    ELSE h

\* self.previous_element = None; last_child.next_element = None; self.parent = None
extract_clear_ends(h, self, last_child) ==
    Set(Set(Set(h, "previous_element", self, None),
            "next_element", last_child, None),
        "parent", self, None)

extract_previous_sibling(h, self) ==
    IF h.previous_sibling[self] # None /\ h.previous_sibling[self] # h.next_sibling[self]
    THEN Set(h, "next_sibling", h.previous_sibling[self], h.next_sibling[self])
    ELSE h

\* mutant: the next sibling keeps pointing back at the extracted node
extract_next_sibling_skipped(h, self) == h

extract_next_sibling(h, self) ==
    IF h.next_sibling[self] # None /\ h.next_sibling[self] # h.previous_sibling[self]
    THEN Set(h, "previous_sibling", h.next_sibling[self], h.previous_sibling[self])
    ELSE h

\* self.previous_sibling = self.next_sibling = None
extract_clear_siblings(h, self) ==
    Set(Set(h, "previous_sibling", self, None), "next_sibling", self, None)

extract_bridge(h, self, last_child, next_element_) ==
    extract_clear_ends(
        extract_bridge_back(extract_bridge_forward(h, self, next_element_),
                            self, next_element_),
        self, last_child)

extract_relink(h, self, last_child) ==
    extract_clear_siblings(
        extract_next_sibling(
            extract_previous_sibling(
                extract_bridge(h, self, last_child, h.next_element[last_child]),
                self),
            self),
        self)

\* last_child = self._last_descendant(); a None here is the AttributeError of
\* last_child.next_element
extract_from(h, self, last_child) ==
    IF last_child = Diverges THEN Hang(h)
    ELSE IF last_child = None THEN Raise(h)
    ELSE Ok(extract_relink(h, self, last_child))

extract_unlink(h, self) == extract_from(h, self, _last_descendant(h, self, TRUE, TRUE))

\* del self.parent.contents[_self_index]
extract_at(h, self, _self_index) ==
    IF _self_index = NotFound THEN Raise(h)
    ELSE extract_unlink(Set(h, "contents", h.parent[self],
                            PyDel(h.contents[h.parent[self]], _self_index)),
                        self)

\* mutant: extract of a node that has no parent is an error
extract_attached_only(h, self, _self_index) ==
    IF h.parent[self] = None THEN Raise(h)
    ELSE extract_at(h, self, IF _self_index = NoIndex
                             THEN index(h, h.parent[self], self)
                             ELSE _self_index)

extract(h, self, _self_index) ==
    IF h.parent[self] = None THEN extract_unlink(h, self)
    ELSE extract_at(h, self, IF _self_index = NoIndex
                             THEN index(h, h.parent[self], self)
                             ELSE _self_index)

\* ---------------------------------------------------------------- Tag.insert
\* the loop that looks for the element following the last child of self
RECURSIVE parents_next_sibling(_, _, _)
parents_next_sibling(h, p, fuel) ==
    IF p = None THEN None
    ELSE IF h.next_sibling[p] # None THEN h.next_sibling[p]
    ELSE IF fuel = 0 THEN Diverges
    ELSE parents_next_sibling(h, h.parent[p], fuel - 1)

\* mutant: the new child always goes to the end of the child list
insert_contents_appended(h, self, pos, new_child) ==
    Ok(Set(h, "contents", self, h.contents[self] \o <<new_child>>))

\* self.contents.insert(position, new_child)
insert_contents(h, self, pos, new_child) ==
    Ok(Set(h, "contents", self, PyInsert(h.contents[self], pos, new_child)))

\* if new_childs_last_element.next_element is not None:
\*     new_childs_last_element.next_element.previous_element = new_childs_last_element
insert_back_link(h, new_childs_last_element) ==
    IF h.next_element[new_childs_last_element] # None
    THEN Set(h, "previous_element", h.next_element[new_childs_last_element],
             new_childs_last_element)
    ELSE h

\* the else branch: new_child goes before next_child
insert_middle(h, self, pos, new_child, new_childs_last_element, next_child) ==
    insert_contents(
        insert_back_link(
            Set(Set(Set(h, "next_sibling", new_child, next_child),
                    "previous_sibling", next_child, new_child),
                "next_element", new_childs_last_element, next_child),
            new_childs_last_element),
        self, pos, new_child)

insert_last_link(h, self, pos, new_child, new_childs_last_element, pns) ==
    IF pns = Diverges THEN Hang(h)
    ELSE insert_contents(
             insert_back_link(Set(h, "next_element", new_childs_last_element, pns),
                              new_childs_last_element),
             self, pos, new_child)

\* the branch position >= len(self.contents), after new_child.next_sibling = None
insert_last(h, self, pos, new_child, new_childs_last_element) ==
    insert_last_link(h, self, pos, new_child, new_childs_last_element,
                     parents_next_sibling(h, self, NumNodes))

insert_tail(h, self, pos, new_child, new_childs_last_element) ==
    IF new_childs_last_element = Diverges THEN Hang(h)
    ELSE IF pos >= Len(h.contents[self])
    THEN insert_last(Set(h, "next_sibling", new_child, None), self, pos, new_child,
                     new_childs_last_element)
    ELSE insert_middle(h, self, pos, new_child, new_childs_last_element,
                       PyGet(h.contents[self], pos))

\* if new_child.previous_element is not None:
\*     new_child.previous_element.next_element = new_child
insert_forward_link(h, new_child) ==
    IF h.previous_element[new_child] # None
    THEN Set(h, "next_element", h.previous_element[new_child], new_child)
    ELSE h

insert_order(h, self, pos, new_child) ==
    insert_tail(h, self, pos, new_child, _last_descendant(h, new_child, FALSE, TRUE))

\* new_child.previous_element = previous_child._last_descendant(False)
insert_previous_element(h, self, pos, new_child, last_) ==
    IF last_ = Diverges THEN Hang(h)
    ELSE insert_order(
             insert_forward_link(Set(h, "previous_element", new_child, last_), new_child),
             self, pos, new_child)

\* new_child.previous_sibling = previous_child
\* new_child.previous_sibling.next_sibling = new_child
insert_after_previous(h, self, pos, new_child, previous_child) ==
    insert_previous_element(h, self, pos, new_child,
                            _last_descendant(h, previous_child, FALSE, TRUE))

insert_previous(h, self, pos, new_child) ==
    IF pos = 0
    THEN insert_order(
             insert_forward_link(
                 Set(Set(h, "previous_sibling", new_child, None),
                     "previous_element", new_child, self),
                 new_child),
             self, pos, new_child)
    \* previous_child = self.contents[position - 1]: IndexError
    ELSE IF ~PyIndexValid(h.contents[self], pos - 1) THEN Raise(h)
    ELSE insert_after_previous(
             Set(Set(h, "previous_sibling", new_child, PyGet(h.contents[self], pos - 1)),
                 "next_sibling", PyGet(h.contents[self], pos - 1), new_child),
             self, pos, new_child, PyGet(h.contents[self], pos - 1))

\* from new_child.parent = self to the end of the method
insert_link(h, self, pos, new_child) ==
    insert_previous(Set(h, "parent", new_child, self), self, pos, new_child)

insert_extracted(e, self, pos, new_child) ==
    IF e.res # "ok" THEN e ELSE insert_link(e.h, self, pos, new_child)

\* mutant: the position is not moved down when the child comes from before it
insert_moved_unadjusted(h, self, position, new_child, current_index) ==
    IF current_index = NotFound THEN Raise(h)
    ELSE insert_extracted(extract(h, new_child, NoIndex), self, position, new_child)

\* new_child.parent is self: current_index = self.index(new_child)
insert_moved(h, self, position, new_child, current_index) ==
    IF current_index = NotFound THEN Raise(h)
    ELSE insert_extracted(extract(h, new_child, NoIndex), self,
                          IF current_index < position THEN position - 1 ELSE position,
                          new_child)

insert_at(h, self, position, new_child) ==
    IF h.parent[new_child] = None THEN insert_link(h, self, position, new_child)
    ELSE IF h.parent[new_child] = self
    THEN insert_moved(h, self, position, new_child, index(h, self, new_child))
    ELSE insert_extracted(extract(h, new_child, NoIndex), self, position, new_child)

insert(h, self, position, new_child) ==
    IF new_child = None THEN Raise(h)
    ELSE IF new_child = self THEN Raise(h)
    ELSE insert_at(h, self, Min(position, Len(h.contents[self])), new_child)

\* Tag.append
append(h, self, tag) == insert(h, self, Len(h.contents[self]), tag)

\* ---------------------------------------------------------------- replace_with
\* for idx, replace_with in enumerate(args, start=my_index):
\*     old_parent.insert(idx, replace_with)
RECURSIVE replace_with_loop(_, _, _, _)
RECURSIVE replace_with_next(_, _, _, _)
replace_with_loop(h, old_parent, idx, args) ==
    IF args = <<>> THEN Ok(h)
    ELSE replace_with_next(insert(h, old_parent, idx, Head(args)), old_parent, idx, args)

replace_with_next(r, old_parent, idx, args) ==
    IF r.res # "ok" THEN r
    ELSE replace_with_loop(r.h, old_parent, idx + 1, Tail(args))

replace_with_extracted(e, old_parent, my_index, args) ==
    IF e.res # "ok" THEN e ELSE replace_with_loop(e.h, old_parent, my_index, args)

replace_with_at(h, self, args, old_parent, my_index) ==
    IF my_index = NotFound THEN Raise(h)
    ELSE replace_with_extracted(extract(h, self, my_index), old_parent, my_index, args)

replace_with(h, self, args) ==
    IF h.parent[self] = None THEN Raise(h)
    ELSE IF Len(args) = 1 /\ args[1] = self THEN Ok(h)
    ELSE IF \E i \in 1 .. Len(args) : args[i] = h.parent[self] THEN Raise(h)
    ELSE replace_with_at(h, self, args, h.parent[self], index(h, h.parent[self], self))

\* ---------------------------------------------------------------- unwrap
\* for child in reversed(self.contents[:]): my_parent.insert(my_index, child)
RECURSIVE unwrap_loop(_, _, _, _)
RECURSIVE unwrap_next(_, _, _, _)
unwrap_loop(h, my_parent, my_index, children) ==
    IF children = <<>> THEN Ok(h)
    ELSE unwrap_next(insert(h, my_parent, my_index, Head(children)),
                     my_parent, my_index, children)

unwrap_next(r, my_parent, my_index, children) ==
    IF r.res # "ok" THEN r
    ELSE unwrap_loop(r.h, my_parent, my_index, Tail(children))

\* mutant: the children are re-inserted first to last, not last to first
unwrap_extracted_forward(e, self, my_parent, my_index) ==
    IF e.res # "ok" THEN e
    ELSE IF ~isTag(self) THEN Raise(e.h)
    ELSE unwrap_loop(e.h, my_parent, my_index, e.h.contents[self])

unwrap_extracted(e, self, my_parent, my_index) ==
    IF e.res # "ok" THEN e
    \* a NavigableString has no contents: AttributeError
    ELSE IF ~isTag(self) THEN Raise(e.h)
    ELSE unwrap_loop(e.h, my_parent, my_index, Reverse(e.h.contents[self]))

unwrap_at(h, self, my_parent, my_index) ==
    IF my_index = NotFound THEN Raise(h)
    ELSE unwrap_extracted(extract(h, self, my_index), self, my_parent, my_index)

unwrap(h, self) ==
    IF h.parent[self] = None THEN Raise(h)
    ELSE unwrap_at(h, self, h.parent[self], index(h, h.parent[self], self))

\* ---------------------------------------------------------------- wrap
\* wrap_inside.append(me)
wrap_append(me, self, wrap_inside) ==
    IF me.res # "ok" THEN me ELSE append(me.h, wrap_inside, self)

wrap(h, self, wrap_inside) ==
    wrap_append(replace_with(h, self, <<wrap_inside>>), self, wrap_inside)

\* ---------------------------------------------------------------- insert_before / insert_after
RECURSIVE insert_before_loop(_, _, _, _)
RECURSIVE insert_before_next(_, _, _, _)
insert_before_next(r, self, par, args) ==
    IF r.res # "ok" THEN r ELSE insert_before_loop(r.h, self, par, Tail(args))

\* index = parent.index(self); parent.insert(index, predecessor)
insert_before_at(h, self, par, args, idx) ==
    IF idx = NotFound THEN Raise(h)
    ELSE insert_before_next(insert(h, par, idx, Head(args)), self, par, args)

insert_before_extracted(e, self, par, args) ==
    IF e.res # "ok" THEN e
    ELSE insert_before_at(e.h, self, par, args, index(e.h, par, self))

insert_before_loop(h, self, par, args) ==
    IF args = <<>> THEN Ok(h)
    ELSE insert_before_extracted(IF isPageElement(Head(args))
                                 THEN extract(h, Head(args), NoIndex) ELSE Ok(h),
                                 self, par, args)

insert_before(h, self, args) ==
    IF h.parent[self] = None THEN Raise(h)
    ELSE IF \E i \in 1 .. Len(args) : args[i] = self THEN Raise(h)
    ELSE insert_before_loop(h, self, h.parent[self], args)

RECURSIVE insert_after_loop(_, _, _, _, _)
RECURSIVE insert_after_next(_, _, _, _, _)
insert_after_next(r, self, par, offset, args) ==
    IF r.res # "ok" THEN r
    ELSE insert_after_loop(r.h, self, par, offset + 1, Tail(args))

\* index = parent.index(self); parent.insert(index+1+offset, successor)
insert_after_at(h, self, par, offset, args, idx) ==
    IF idx = NotFound THEN Raise(h)
    ELSE insert_after_next(insert(h, par, idx + 1 + offset, Head(args)),
                           self, par, offset, args)

insert_after_extracted(e, self, par, offset, args) ==
    IF e.res # "ok" THEN e
    ELSE insert_after_at(e.h, self, par, offset, args, index(e.h, par, self))

insert_after_loop(h, self, par, offset, args) ==
    IF args = <<>> THEN Ok(h)
    ELSE insert_after_extracted(IF isPageElement(Head(args))
                                THEN extract(h, Head(args), NoIndex) ELSE Ok(h),
                                self, par, offset, args)

insert_after(h, self, args) ==
    IF h.parent[self] = None THEN Raise(h)
    ELSE IF \E i \in 1 .. Len(args) : args[i] = self THEN Raise(h)
    ELSE insert_after_loop(h, self, h.parent[self], 0, args)

\* ---------------------------------------------------------------- decompose
\* i.__dict__.clear(); if isinstance(i, Tag): i.contents = []; i._decomposed = True
decompose_wipe(h, i) ==
    [h EXCEPT !.parent[i] = None,
              !.previous_sibling[i] = None,
              !.next_sibling[i] = None,
              !.previous_element[i] = None,
              !.next_element[i] = None,
              !.contents[i] = <<>>,
              !.decomposed[i] = TRUE]

\* mutant: only the node itself is wiped, not its descendants
decompose_loop_self_only(h, i, fuel) == Ok(decompose_wipe(h, i))

\* reading next_element of an object whose __dict__ was cleared: a Tag answers
\* through __getattr__ with find("next_element"), which is None on the empty
\* contents; a NavigableString raises AttributeError
RECURSIVE decompose_loop(_, _, _)
decompose_loop(h, i, fuel) ==
    IF i = None THEN Ok(h)
    ELSE IF h.decomposed[i] /\ ~isTag(i) THEN Raise(h)
    ELSE IF fuel = 0 THEN Hang(h)
    ELSE decompose_loop(decompose_wipe(h, i),
                        IF h.decomposed[i] THEN None ELSE h.next_element[i],
                        fuel - 1)

decompose_extracted(e, self) ==
    IF e.res # "ok" THEN e ELSE decompose_loop(e.h, self, NumNodes + 1)

decompose(h, self) == decompose_extracted(extract(h, self, NoIndex), self)

\* ---------------------------------------------------------------- Tag.clear
RECURSIVE clear_loop(_, _, _)
RECURSIVE clear_next(_, _, _)
clear_next(r, elements, decompose_) ==
    IF r.res # "ok" THEN r ELSE clear_loop(r.h, Tail(elements), decompose_)

clear_loop(h, elements, decompose_) ==
    IF elements = <<>> THEN Ok(h)
    ELSE clear_next(IF decompose_ THEN decompose(h, Head(elements))
                    ELSE extract(h, Head(elements), NoIndex),
                    elements, decompose_)

clear(h, self, decompose_) == clear_loop(h, h.contents[self], decompose_)

\* ---------------------------------------------------------------- the traversal generators
\* obj.field read by a generator. None has no attributes, and decompose leaves
\* a NavigableString without any (AttributeError); a decomposed Tag answers
\* None through Tag.__getattr__
Missing == 0 - 3
getattr(h, obj, field) ==
    IF obj = None THEN Missing
    ELSE IF h.decomposed[obj] /\ ~isTag(obj) THEN Missing
    ELSE h[field][obj]

\* a generator object: "created" before its first step, "suspended" at a
\* yield with current the node yielded, then "ended" (StopIteration),
\* "raised" (an exception left the generator) or "hang"
Generator(kind, self) ==
    [kind |-> kind, self |-> self, state |-> "created", current |-> None,
     stopNode |-> None, mutations |-> 0]
\* no generator has been asked for
NoGenerator == [Generator("none", None) EXCEPT !.state = "none"]
Finish(g, state) == [g EXCEPT !.state = state, !.current = None]
Yield(g, i) == [g EXCEPT !.state = "suspended", !.current = i]

\* next_elements, next_siblings, previous_elements, previous_siblings, parents
IterKinds == {"descendants", "next_elements", "next_siblings",
              "previous_elements", "previous_siblings", "parents"}
link_of(kind) ==
    CASE kind = "next_elements" -> "next_element"
      [] kind = "next_siblings" -> "next_sibling"
      [] kind = "previous_elements" -> "previous_element"
      [] kind = "previous_siblings" -> "previous_sibling"
      [] OTHER -> "parent"

\* while i is not None: yield i
links_yield(g, i) ==
    IF i = Missing THEN Finish(g, "raised")
    ELSE IF i = None THEN Finish(g, "ended")
    ELSE Yield(g, i)

\* i = self.link at the first step, i = i.link at the later ones
links_step(h, g) ==
    links_yield(g, getattr(h, IF g.state = "created" THEN g.self ELSE g.current,
                           link_of(g.kind)))

\* Tag.descendants: while current is not stopNode: yield current
descendants_yield(g, current) ==
    IF current = Missing THEN Finish(g, "raised")
    ELSE IF current = g.stopNode THEN Finish(g, "ended")
    ELSE Yield(g, current)

\* stopNode = self._last_descendant().next_element
\* current = self.contents[0]
descendants_stop(h, g, stopNode) ==
    IF stopNode = Missing THEN Finish(g, "raised")
    ELSE descendants_yield([g EXCEPT !.stopNode = stopNode], h.contents[g.self][1])

descendants_last(h, g, last_child) ==
    IF last_child = Diverges THEN Finish(g, "hang")
    ELSE descendants_stop(h, g, getattr(h, last_child, "next_element"))

\* if not len(self.contents): return
descendants_start(h, g) ==
    IF h.contents[g.self] = <<>> THEN Finish(g, "ended")
    ELSE descendants_last(h, g, _last_descendant(h, g.self, TRUE, TRUE))

\* current = current.next_element
descendants_step(h, g) ==
    IF g.state = "created" THEN descendants_start(h, g)
    ELSE descendants_yield(g, getattr(h, g.current, "next_element"))

\* next(generator)
step(h, g) ==
    IF g.kind = "descendants" THEN descendants_step(h, g) ELSE links_step(h, g)

\* list(generator) on a tree nobody changes meanwhile: the nodes yielded and
\* how the generator ended
RECURSIVE exhaust(_, _, _, _)
exhaust_next(h, g, out, fuel) ==
    IF g.state = "suspended" THEN exhaust(h, g, Append(out, g.current), fuel)
    ELSE [out |-> out, state |-> g.state]
exhaust(h, g, out, fuel) ==
    IF fuel = 0 THEN [out |-> out, state |-> "hang"]
    ELSE exhaust_next(h, step(h, g), out, fuel - 1)

descendants(h, self) == exhaust(h, Generator("descendants", self), <<>>, NumNodes + 1)

\* ---------------------------------------------------------------- Python values of bs4/strainer.py
\* A value carries its type. A str is its code points, a bytes its octets, a
\* compiled pattern the literal text it searches for, a function the number
\* of one of the predicates below, a list its items
PyNone == [kind |-> "None", val |-> <<>>]
Str(s) == [kind |-> "str", val |-> s]
Bytes(b) == [kind |-> "bytes", val |-> b]
Bool(b) == [kind |-> "bool", val |-> <<IF b THEN 1 ELSE 0>>]
Pattern(s) == [kind |-> "Pattern", val |-> s]
Function(f) == [kind |-> "function", val |-> <<f>>]
PyInt(n) == [kind |-> "int", val |-> <<n>>]
List(items) == [kind |-> "list", val |-> items]
\* as an item of a list: that list itself
Itself == [kind |-> "itself", val |-> <<>>]

\* "a", "b", "c", "p:a", "a b" and the one-octet and two-octet UTF-8 forms
s_a == <<97>>
s_b == <<98>>
s_c == <<99>>
s_p == <<112>>
s_pa == <<112, 58, 97>>
s_ab == <<97, 32, 98>>
s_e_acute == <<233>>
b_e_acute == <<195, 169>>

\* bytes.decode("utf8") of well-formed input of one- and two-octet sequences
RECURSIVE decode(_)
decode(b) ==
    IF b = <<>> THEN <<>>
    ELSE IF b[1] < 128 THEN <<b[1]>> \o decode(Tail(b))
    ELSE <<(b[1] - 192) * 64 + (b[2] - 128)>> \o decode(Tail(Tail(b)))

\* str(n) of a small natural number
str(n) == IF n < 10 THEN <<48 + n>> ELSE <<48 + (n \div 10), 48 + (n % 10)>>

\* mutant: re.Pattern.fullmatch
pattern_fullmatch(pattern, string) == pattern = string

\* re.Pattern.search of a literal pattern: found anywhere in the string
pattern_search(pattern, string) ==
    \E i \in 1 .. (Len(string) - Len(pattern) + 1) :
        SubSeq(string, i, i + Len(pattern) - 1) = pattern

\* " ".join(strings)
RECURSIVE join(_)
join(strings) ==
    IF strings = <<>> THEN <<>>
    ELSE IF Len(strings) = 1 THEN strings[1].val
    ELSE strings[1].val \o <<32>> \o join(Tail(strings))

\* an Element as the strainer sees it: prefix (None or a str), name, the
\* attribute map (a str, a list of str, or None when absent: Tag.get) and
\* Tag.string (None or the single string it reduces to)
AttrNames == {"class", "class_", "id"}
Element(prefix, name_, attrs, string) ==
    [kind |-> "Tag", val |-> <<>>, prefix |-> prefix, name |-> name_,
     attrs |-> attrs, string |-> string]

\* the predicates handed in as functions
\*   1: lambda x: True          2: lambda x: False
\*   3: lambda x: isinstance(x, Tag)
\*   4: lambda x: x == "a"
\*   5: lambda x: isinstance(x, str)
Apply(function, x) ==
    CASE function.val[1] = 1 -> TRUE
      [] function.val[1] = 2 -> FALSE
      [] function.val[1] = 3 -> x.kind = "Tag"
      [] function.val[1] = 4 -> x.kind = "str" /\ x.val = s_a
      [] OTHER -> x.kind = "str"

\* ---------------------------------------------------------------- MatchRule
ValueError == [res |-> "ValueError", rule |-> PyNone]

\* values = [x for x in (self.string, self.pattern, self.function,
\*                       self.present) if x is not None]
supplied(rule) ==
    Len(SelectSeq(<<rule.string, rule.pattern, rule.function, rule.present>>,
                  LAMBDA x : x.kind # "None"))

\* mutant: the number of modes is not checked
MatchRule_unchecked(rule) == [res |-> "ok", rule |-> rule]

MatchRule_checked(rule) ==
    IF supplied(rule) = 0 THEN ValueError
    ELSE IF supplied(rule) > 1 THEN ValueError
    ELSE [res |-> "ok", rule |-> rule]

\* MatchRule.__init__
MatchRule(string, pattern, function, present) ==
    MatchRule_checked(
        [string |-> IF string.kind = "bytes" THEN Str(decode(string.val))
                    ELSE string,
         pattern |-> IF pattern.kind = "bytes" THEN Pattern(decode(pattern.val))
                     ELSE IF pattern.kind = "str" THEN Pattern(pattern.val)
                     ELSE pattern,
         function |-> function,
         present |-> present])

\* MatchRule._base_match: True, False, or None when only the function can tell
_base_match(self, string) ==
    IF self.present.kind = "bool" /\ self.present.val = <<1>>
    THEN Bool(string.kind # "None")
    ELSE IF self.present.kind = "bool" /\ self.present.val = <<0>>
    THEN Bool(string.kind = "None")
    ELSE IF self.string.kind # "None"
    THEN Bool(string.kind = "str" /\ string.val = self.string.val)
    ELSE IF self.pattern.kind # "None"
    THEN IF string.kind = "None" THEN Bool(FALSE)
         ELSE Bool(pattern_search(self.pattern.val, string.val))
    ELSE PyNone

\* the answer of a match and the kinds of the arguments the rule's function
\* was called with on the way
Answer(v, calls) == [v |-> v, calls |-> calls]

\* MatchRule.matches_string
matches_string(self, string) ==
    IF _base_match(self, string).kind # "None"
    THEN Answer(_base_match(self, string).val = <<1>>, <<>>)
    ELSE IF self.function.kind # "None"
    THEN Answer(Apply(self.function, string), <<string.kind>>)
    ELSE Answer(TRUE, <<>>)

\* TagNameMatchRule.matches_tag
rule_matches_tag(self, tag) ==
    IF _base_match(self, tag.name).kind # "None"
    THEN Answer(_base_match(self, tag.name).val = <<1>>, <<>>)
    ELSE Answer(Apply(self.function, tag), <<tag.kind>>)

\* ---------------------------------------------------------------- SoupStrainer
\* what a for loop over a list gets: its items, the list itself where it
\* contains itself
items(obj) ==
    [i \in 1 .. Len(obj.val) |->
        IF obj.val[i].kind = "itself" THEN obj ELSE obj.val[i]]

\* mutant: a nested list is looked into
nested_never(o) == FALSE

\* not isinstance(o, (bytes, str)) and hasattr(o, '__iter__')
nested(o) == o.kind = "list"

\* the rules made, or "hang" when the recursion does not come to an end
Made(rules) == [rules |-> rules, state |-> "ended"]
Chain(a, b) ==
    [rules |-> a.rules \o b.rules,
     state |-> IF a.state = "ended" THEN b.state ELSE a.state]

\* SoupStrainer._make_match_rules
RECURSIVE _make_match_rules(_, _)
RECURSIVE rules_of_items(_, _)
_make_match_rules(obj, fuel) ==
    CASE obj.kind = "None" -> Made(<<>>)
      [] obj.kind \in {"str", "bytes"} ->
            Made(<<MatchRule(obj, PyNone, PyNone, PyNone).rule>>)
      [] obj.kind = "bool" ->
            Made(<<MatchRule(PyNone, PyNone, PyNone, obj).rule>>)
      [] obj.kind = "function" ->
            Made(<<MatchRule(PyNone, PyNone, obj, PyNone).rule>>)
      [] obj.kind = "Pattern" ->
            Made(<<MatchRule(PyNone, obj, PyNone, PyNone).rule>>)
      [] obj.kind = "list" ->
            IF fuel = 0 THEN [rules |-> <<>>, state |-> "hang"]
            ELSE rules_of_items(items(obj), fuel - 1)
      [] OTHER ->
            Made(<<MatchRule(Str(str(obj.val[1])), PyNone, PyNone, PyNone).rule>>)

\* for o in obj: a nested list is ignored with a warning
rules_of_items(os, fuel) ==
    IF os = <<>> THEN Made(<<>>)
    ELSE IF nested(Head(os)) THEN rules_of_items(Tail(os), fuel)
    ELSE Chain(_make_match_rules(Head(os), fuel), rules_of_items(Tail(os), fuel))

\* a dict, in the order of its keys
Dict(pairs) == [kind |-> "dict", val |-> pairs]
Item(attr, value) == [attr |-> attr, value |-> value]

\* mutant: the rules given last replace the rules of the attribute
replaced(rules, rule_objs) == rule_objs

\* for rule_obj in ...: self.attribute_rules[attr].append(rule_obj)
appended(rules, rule_objs) == rules \o rule_objs

\* for attr, value in attrdict.items(): ...
RECURSIVE add_attribute_rules(_, _, _)
add_attribute_rules(attribute_rules, pairs, is_kwargs) ==
    IF pairs = <<>> THEN attribute_rules
    ELSE add_attribute_rules(
            [attribute_rules EXCEPT
                ![IF Head(pairs).attr = "class_" /\ is_kwargs THEN "class"
                  ELSE Head(pairs).attr] =
                    appended(@, _make_match_rules(
                            IF Head(pairs).value.kind = "None" THEN Bool(FALSE)
                            ELSE Head(pairs).value, MaxDepth).rules)],
            Tail(pairs), is_kwargs)

\* SoupStrainer.__init__; an attribute has an entry in attribute_rules when
\* its list of rules is not empty
SoupStrainer(name_, attrs, string, kwargs) ==
    [name_rules |-> _make_match_rules(name_, MaxDepth).rules,
     attribute_rules |->
        add_attribute_rules(
            add_attribute_rules(
                [a \in AttrNames |-> <<>>],
                IF attrs.kind = "dict" THEN attrs.val
                ELSE <<Item("class", attrs)>>, FALSE),
            kwargs.val, TRUE),
     string_rules |-> _make_match_rules(string, MaxDepth).rules]

has_attribute_rules(self) == \E a \in AttrNames : Len(self.attribute_rules[a]) > 0

\* _match_attribute_value_helper
_match_attribute_value_helper(rules, attr_values) ==
    \E i \in 1 .. Len(rules) : \E j \in 1 .. Len(attr_values) :
        matches_string(rules[i], attr_values[j]).v

\* SoupStrainer._attribute_match
attr_values_match(rules, attr_values) ==
    IF _match_attribute_value_helper(rules, attr_values) THEN TRUE
    ELSE IF Len(attr_values) > 1
    THEN _match_attribute_value_helper(rules, <<Str(join(attr_values))>>)
    ELSE FALSE

\* mutant: the rules of an attribute are not looked at
_attribute_match_any(attr_value, rules) == TRUE

_attribute_match(attr_value, rules) ==
    attr_values_match(rules, IF attr_value.kind = "list" THEN attr_value.val
                             ELSE <<attr_value>>)

\* SoupStrainer._attribute_match step by step: which rule was tested against
\* which candidate, in the order of the tests, up to the first that succeeds.
\* for rule in rules: for attr_value in attr_values:
\*     if rule.matches_string(attr_value): return True
Tested(v, tests) == [v |-> v, tests |-> tests]
Test(i, attr_value) == [rule |-> i, value |-> attr_value]
RECURSIVE helper_tests(_, _, _, _, _)
helper_tests(rules, attr_values, i, j, tests) ==
    IF i > Len(rules) THEN Tested(FALSE, tests)
    ELSE IF j > Len(attr_values) THEN helper_tests(rules, attr_values, i + 1, 1, tests)
    ELSE IF matches_string(rules[i], attr_values[j]).v
    THEN Tested(TRUE, Append(tests, Test(i, attr_values[j])))
    ELSE helper_tests(rules, attr_values, i, j + 1,
                      Append(tests, Test(i, attr_values[j])))

\* mutant: the joined string is not tried
retry_never(rules, attr_values, first) == first

\* if not this_attr_match and len(attr_values) > 1:
\*     this_attr_match = _match_attribute_value_helper([" ".join(attr_values)])
retry(rules, attr_values, first) ==
    IF ~first.v /\ Len(attr_values) > 1
    THEN helper_tests(rules, <<Str(join(attr_values))>>, 1, 1, first.tests)
    ELSE first

_attribute_match_tests(attr_value, rules) ==
    retry(rules,
          IF attr_value.kind = "list" THEN attr_value.val ELSE <<attr_value>>,
          helper_tests(rules,
                       IF attr_value.kind = "list" THEN attr_value.val
                       ELSE <<attr_value>>,
                       1, 1, <<>>))

\* for attr, rules in self.attribute_rules.items(): ... return False
attributes_match(self, attrs) ==
    \A a \in AttrNames :
        Len(self.attribute_rules[a]) > 0 =>
            _attribute_match(attrs[a], self.attribute_rules[a])

\* SoupStrainer.matches_any_string_rule
matches_any_string_rule(self, string) ==
    \/ Len(self.string_rules) = 0
    \/ \E i \in 1 .. Len(self.string_rules) :
          matches_string(self.string_rules[i], string).v

\* f"{prefix}:{name}" when the prefix is neither None nor empty
prefixed(prefix, name_) ==
    IF prefix.kind = "str" /\ Len(prefix.val) > 0
    THEN Str(prefix.val \o <<58>> \o name_.val)
    ELSE PyNone

\* for rule in self.name_rules:
\*     if rule.matches_tag(tag) or (prefixed_name is not None
\*                                  and rule.matches_string(prefixed_name)): break
RECURSIVE name_rules_match(_, _, _, _)
name_rule_prefixed(rules, tag, prefixed_name, calls, b) ==
    IF b.v THEN Answer(TRUE, calls \o b.calls)
    ELSE name_rules_match(Tail(rules), tag, prefixed_name, calls \o b.calls)
name_rule_bare(rules, tag, prefixed_name, calls, a) ==
    IF a.v THEN Answer(TRUE, calls \o a.calls)
    ELSE IF prefixed_name.kind # "None"
    THEN name_rule_prefixed(rules, tag, prefixed_name, calls \o a.calls,
                            matches_string(Head(rules), prefixed_name))
    ELSE name_rules_match(Tail(rules), tag, prefixed_name, calls \o a.calls)
name_rules_match(rules, tag, prefixed_name, calls) ==
    IF rules = <<>> THEN Answer(FALSE, calls)
    ELSE name_rule_bare(rules, tag, prefixed_name, calls,
                        rule_matches_tag(Head(rules), tag))

\* the attribute rules and the string rules, once the name has passed
matches_tag_rest(self, tag, named) ==
    IF ~named.v THEN named
    ELSE Answer(/\ attributes_match(self, tag.attrs)
                /\ Len(self.string_rules) > 0 =>
                      matches_any_string_rule(self, tag.string),
                named.calls)

\* mutant: the short cut does not look at the prefix
name_differs_prefix_unseen(self, tag) ==
    /\ Len(self.name_rules) = 1
    /\ self.name_rules[1].string.kind # "None"
    /\ tag.name.val # self.name_rules[1].string.val

\* if not tag.prefix and len(self.name_rules) == 1
\*    and self.name_rules[0].string is not None
\*    and tag.name != self.name_rules[0].string: return False
name_differs(self, tag) ==
    /\ prefixed(tag.prefix, tag.name).kind = "None"
    /\ Len(self.name_rules) = 1
    /\ self.name_rules[1].string.kind # "None"
    /\ tag.name.val # self.name_rules[1].string.val

\* matches_tag from the name rules on: the general path
matches_tag_rules(self, tag) ==
    matches_tag_rest(self, tag,
        IF Len(self.name_rules) > 0
        THEN name_rules_match(self.name_rules, tag,
                              prefixed(tag.prefix, tag.name), <<>>)
        ELSE Answer(TRUE, <<>>))

\* SoupStrainer.matches_tag
matches_tag(self, tag) ==
    IF Len(self.name_rules) = 0 /\ ~has_attribute_rules(self)
    THEN Answer(FALSE, <<>>)
    ELSE IF name_differs(self, tag) THEN Answer(FALSE, <<>>)
    ELSE matches_tag_rules(self, tag)

\* SoupStrainer.allow_tag_creation
allow_tag_creation(self, nsprefix, name_, attrs) ==
    IF Len(self.string_rules) > 0 THEN FALSE
    ELSE /\ Len(self.name_rules) > 0 =>
               \E i \in 1 .. Len(self.name_rules) :
                  \/ matches_string(self.name_rules[i], name_).v
                  \/ matches_string(self.name_rules[i], prefixed(nsprefix, name_)).v
         /\ attributes_match(self, attrs)

\* mutant: the name and attribute rules are not looked at
allow_string_creation_any(self, string) == matches_any_string_rule(self, string)

\* SoupStrainer.allow_string_creation
allow_string_creation(self, string) ==
    IF Len(self.name_rules) > 0 \/ has_attribute_rules(self) THEN FALSE
    ELSE matches_any_string_rule(self, string)

\* SoupStrainer.search: whether the element is returned (a match) or False
search(self, element) ==
    IF element.kind = "Tag" THEN matches_tag(self, element).v
    ELSE /\ ~(Len(self.name_rules) > 0 \/ has_attribute_rules(self))
         /\ \E i \in 1 .. Len(self.string_rules) :
               matches_string(self.string_rules[i], element).v

\* no call has been made
NoReply == [op |-> "none", args |-> <<>>, ret |-> PyNone]

\* ---------------------------------------------------------------- find_all and the SoupStrainer of bs4/element.py
\* find_all builds the SoupStrainer class that element.py itself defines and
\* asks it about the elements of a traversal. c is what the objects were
\* constructed with; a filter is None, True or a str
isinstance_Tag(c, i) == c[i].class = "Tag"

\* bool(x): None, False and the empty str are false; a Tag is true
\* (Tag.__bool__), a NavigableString is a str
truth(v) ==
    CASE v.kind = "None" -> FALSE
      [] v.kind = "bool" -> v.val = <<1>>
      [] OTHER -> Len(v.val) > 0
bool(c, i) == isinstance_Tag(c, i) \/ Len(c[i].value) > 0

\* name.count(':') and name.split(':', 1)
count(s, ch) == Cardinality({k \in 1 .. Len(s) : s[k] = ch})
find(s, ch) == CHOOSE k \in 1 .. Len(s) : s[k] = ch /\ \A j \in 1 .. (k - 1) : s[j] # ch
split_prefix(name_) ==
    IF count(name_, 58) = 1 THEN Str(SubSeq(name_, 1, find(name_, 58) - 1)) ELSE PyNone
split_local_name(name_) ==
    IF count(name_, 58) = 1 THEN SubSeq(name_, find(name_, 58) + 1, Len(name_))
    ELSE name_

\* Tag.string: the single string inside, if there is just one
RECURSIVE tag_string(_, _, _, _)
tag_string(h, c, i, fuel) ==
    IF ~isinstance_Tag(c, i) THEN i
    ELSE IF Len(h.contents[i]) # 1 \/ fuel = 0 THEN None
    ELSE tag_string(h, c, h.contents[i][1], fuel - 1)

\* SoupStrainer._matches(markup, match_against), markup a str or None
_matches_str(markup, match_against) ==
    IF match_against = Bool(TRUE) THEN markup.kind # "None"
    ELSE IF markup.kind = "None" THEN ~truth(match_against)
    ELSE match_against.kind = "str" /\ markup.val = match_against.val

\* SoupStrainer._matches(markup, match_against), markup a Tag: its name and,
\* when that does not match and there is a prefix, prefix:name
_matches(c, markup, match_against) ==
    IF match_against = Bool(TRUE) THEN TRUE
    ELSE IF match_against.kind = "str" /\ c[markup].name.val = match_against.val
    THEN TRUE
    ELSE IF truth(c[markup].prefix)
    THEN _matches_str(Str(c[markup].prefix.val \o <<58>> \o c[markup].name.val),
                      match_against)
    ELSE FALSE

\* SoupStrainer(name, {}, string): the normalized filters
OldSoupStrainer(name_, string_) == [name |-> name_, string |-> string_]

\* SoupStrainer.search_tag(markup): the Tag, or None / False
search_tag_string(self, h, c, found) ==
    IF truth(self.string)
       /\ ~_matches_str(IF tag_string(h, c, found, NumNodes) = None THEN PyNone
                        ELSE Str(c[tag_string(h, c, found, NumNodes)].value),
                        self.string)
    THEN None
    ELSE found
search_tag(self, h, c, markup) ==
    IF /\ self.name.kind = "str"
       /\ ~truth(c[markup].prefix)
       /\ self.name.val # c[markup].name.val
    THEN None
    ELSE IF ~truth(self.name) \/ _matches(c, markup, self.name)
    THEN search_tag_string(self, h, c, markup)
    ELSE None

\* mutant: only a plain NavigableString is found as a string
search_element_no_comment(self, h, c, markup) ==
    IF isinstance_Tag(c, markup)
    THEN IF ~truth(self.string) \/ truth(self.name)
         THEN search_tag(self, h, c, markup) ELSE None
    ELSE IF /\ ~truth(self.name) /\ c[markup].class = "NavigableString"
            /\ _matches_str(Str(c[markup].value), self.string)
    THEN markup
    ELSE None

\* SoupStrainer.search(markup): the element found, or None
search_element(self, h, c, markup) ==
    IF isinstance_Tag(c, markup)
    THEN IF ~truth(self.string) \/ truth(self.name)
         THEN search_tag(self, h, c, markup) ELSE None
    ELSE IF ~truth(self.name) /\ _matches_str(Str(c[markup].value), self.string)
    THEN markup
    ELSE None

\* the loop of _find_all: while True: i = next(generator) ...
RECURSIVE _find_all_loop(_, _, _, _, _, _)
_find_all_found(self, h, c, limit, generator, results, found) ==
    IF found = None THEN _find_all_loop(self, h, c, limit, Tail(generator), results)
    ELSE IF limit # 0 /\ Len(results) + 1 >= limit THEN Append(results, found)
    ELSE _find_all_loop(self, h, c, limit, Tail(generator), Append(results, found))
_find_all_loop(self, h, c, limit, generator, results) ==
    IF generator = <<>> THEN results
    ELSE IF ~bool(c, Head(generator))
    THEN _find_all_loop(self, h, c, limit, Tail(generator), results)
    ELSE _find_all_found(self, h, c, limit, generator, results,
                         search_element(self, h, c, Head(generator)))

\* element for element in generator if isinstance(element, Tag)
all_tags(c, generator) == SelectSeq(generator, LAMBDA element : isinstance_Tag(c, element))

\* element for element in generator
\*   if isinstance(element, Tag) and (element.name == name)
\*      or (element.name == local_name
\*          and (prefix is None or element.prefix == prefix))
tags_named(c, generator, name_) ==
    SelectSeq(generator,
              LAMBDA element :
                 \/ isinstance_Tag(c, element) /\ c[element].name = Str(name_)
                 \/ /\ c[element].name = Str(split_local_name(name_))
                    /\ \/ split_prefix(name_) = PyNone
                       \/ c[element].prefix = split_prefix(name_))

\* PageElement._find_all(name, {}, string, limit, generator); limit 0 is None
_find_all(h, c, name_, string_, limit, generator) ==
    IF string_ = PyNone /\ limit = 0 /\ (name_ = Bool(TRUE) \/ name_ = PyNone)
    THEN all_tags(c, generator)
    ELSE IF string_ = PyNone /\ limit = 0 /\ name_.kind = "str"
    THEN tags_named(c, generator, name_.val)
    ELSE _find_all_loop(OldSoupStrainer(name_, string_), h, c, limit, generator, <<>>)

\* Tag.find_all(name, string=string, limit=limit)
find_all(h, c, self, name_, string_, limit) ==
    _find_all(h, c, name_, string_, limit, descendants(h, self).out)

\* ---------------------------------------------------------------- the tree invariants
Range(s) == {s[i] : i \in 1 .. Len(s)}

RECURSIVE Flatten(_)
Flatten(ss) == IF ss = <<>> THEN <<>> ELSE Head(ss) \o Flatten(Tail(ss))

\* the pre-order walk of the child lists below n, n first; a walk deeper than
\* the number of nodes is cut (the child lists are then cyclic)
RECURSIVE Preorder(_, _, _)
Preorder(h, n, fuel) ==
    IF fuel = 0 THEN <<n>>
    ELSE <<n>> \o Flatten([i \in 1 .. Len(h.contents[n]) |->
                             Preorder(h, h.contents[n][i], fuel - 1)])

\* the nodes met following link (next_element, previous_element, parent, ...)
\* from n, n first, cut after fuel steps
RECURSIVE Walk(_, _, _, _)
Walk(h, link, n, fuel) ==
    IF n = None THEN <<>>
    ELSE IF fuel = 0 THEN <<n>>
    ELSE <<n>> \o Walk(h, link, h[link][n], fuel - 1)

Ancestors(h, n) == Range(Walk(h, "parent", h.parent[n], NumNodes))
Subtree(h, n) == Range(Preorder(h, n, NumNodes))

\* no node is its own ancestor
Acyclic(h) == \A n \in Nodes : n \notin Ancestors(h, n)

\* parent, child lists and sibling links agree
ChildListsAgree(h) ==
    /\ \A n \in Nodes :
          /\ h.parent[n] # None =>
                Cardinality({i \in 1 .. Len(h.contents[h.parent[n]]) :
                               h.contents[h.parent[n]][i] = n}) = 1
          /\ \A q \in Nodes : n \in Range(h.contents[q]) => h.parent[n] = q
          /\ h.parent[n] = None =>
                h.previous_sibling[n] = None /\ h.next_sibling[n] = None
    /\ \A q \in Nodes : \A i \in 1 .. Len(h.contents[q]) :
          /\ h.previous_sibling[h.contents[q][i]] =
                (IF i = 1 THEN None ELSE h.contents[q][i - 1])
          /\ h.next_sibling[h.contents[q][i]] =
                (IF i = Len(h.contents[q]) THEN None ELSE h.contents[q][i + 1])

\* in every tree next_element from the root is the pre-order of the child
\* lists and previous_element from the last node is its reverse
OrderAgrees(h) ==
    \A r \in Nodes : h.parent[r] = None =>
        LET po == Preorder(h, r, NumNodes)
        IN /\ Walk(h, "next_element", r, NumNodes) = po
           /\ Walk(h, "previous_element", po[Len(po)], NumNodes) = Reverse(po)

Sound(h) == Acyclic(h) /\ ChildListsAgree(h) /\ OrderAgrees(h)

\* ---------------------------------------------------------------- the program
\* `last` is the call in flight with its outcome, `pre` the object graph the
\* call was made on; between calls last is NoCall and pre is the graph itself
NoCall == [op |-> "none", self |-> None, pos |-> 0, args |-> <<>>, res |-> "ok"]
Call(op, self, pos, args, res) ==
    [op |-> op, self |-> self, pos |-> pos, args |-> args, res |-> res]

\* every node freshly constructed: setup() with no arguments
Fresh ==
    [parent |-> [n \in Nodes |-> None],
     previous_sibling |-> [n \in Nodes |-> None],
     next_sibling |-> [n \in Nodes |-> None],
     previous_element |-> [n \in Nodes |-> None],
     next_element |-> [n \in Nodes |-> None],
     contents |-> [n \in Nodes |-> <<>>],
     decomposed |-> [n \in Nodes |-> FALSE]]

Becomes(h) ==
    /\ parent' = h.parent
    /\ previous_sibling' = h.previous_sibling
    /\ next_sibling' = h.next_sibling
    /\ previous_element' = h.previous_element
    /\ next_element' = h.next_element
    /\ contents' = h.contents
    /\ decomposed' = h.decomposed

\* what an object was constructed with: Tag(name=, prefix=,
\* can_be_empty_element=, preserve_whitespace_tags=), NavigableString(value),
\* Comment(value). Of the objects that have no children in this model the
\* class says whether it is a Tag or a string
Tag(prefix, name_, can_be_empty_element, preserve_whitespace_tags) ==
    [class |-> "Tag", prefix |-> prefix, name |-> name_,
     can_be_empty_element |-> can_be_empty_element,
     preserve_whitespace_tags |-> preserve_whitespace_tags, value |-> <<>>]
NavigableString(value) ==
    [class |-> "NavigableString", prefix |-> PyNone, name |-> PyNone,
     can_be_empty_element |-> FALSE, preserve_whitespace_tags |-> {},
     value |-> value]
Comment(value) == [NavigableString(value) EXCEPT !.class = "Comment"]

\* the objects of the mutation API: two spellings of names and of texts
Numbered ==
    [n \in Nodes |->
        IF isTag(n) THEN Tag(PyNone, Str(IF n % 2 = 1 THEN s_a ELSE s_b), FALSE, {})
        ELSE NavigableString(IF n % 2 = 1 THEN s_a ELSE s_b)]

\* no child has been given to any object yet
Unbuilt ==
    /\ parent = Fresh.parent
    /\ previous_sibling = Fresh.previous_sibling
    /\ next_sibling = Fresh.next_sibling
    /\ previous_element = Fresh.previous_element
    /\ next_element = Fresh.next_element
    /\ contents = Fresh.contents
    /\ decomposed = Fresh.decomposed
    /\ last = NoCall
    /\ pre = Fresh
    /\ unsound_calls = 0
    /\ it = NoGenerator
    /\ strainer = SoupStrainer(PyNone, Dict(<<>>), PyNone, Dict(<<>>))
    /\ reply = NoReply

Init == Unbuilt /\ constructed = Numbered

\* the caller holds references to live objects only
Live(n) == ~decomposed[n]
Idle == last = NoCall

Calls(op, self, pos, args, r) ==
    /\ Becomes(r.h)
    /\ last' = Call(op, self, pos, args, r.res)
    /\ pre' = Heap
    /\ unsound_calls' = IF Sound(Heap) THEN 0 ELSE unsound_calls + 1
    /\ UNCHANGED <<strainer, reply, constructed>>

Does(op, self, pos, args, r) == Calls(op, self, pos, args, r) /\ it' = it

Insert ==
    \E self \in Tags, new_child \in Nodes \cup {None} :
      \E position \in (0 - MaxNeg) .. (Len(contents[self]) + 1) :
        /\ Idle /\ Live(self)
        /\ new_child # None => Live(new_child)
        /\ Does("insert", self, position, <<new_child>>,
                insert(Heap, self, position, new_child))

Extract ==
    \E self \in Nodes :
        /\ Idle /\ Live(self)
        /\ Does("extract", self, 0, <<>>, extract(Heap, self, NoIndex))

DoAppend ==
    \E self \in Tags, tag \in Nodes :
        /\ Idle /\ Live(self) /\ Live(tag)
        /\ Does("append", self, 0, <<tag>>, append(Heap, self, tag))

\* the argument lists of a call on self: up to MaxArgs live nodes or None.
\* A receiver with no parent is rejected before the arguments are looked at;
\* one argument stands for all lists then
ArgLists(self) ==
    UNION {[1 .. k -> {n \in Nodes : Live(n)} \cup {None}] :
             k \in 1 .. (IF parent[self] = None THEN 1 ELSE MaxArgs)}

ReplaceWith ==
    \E self \in Nodes : \E args \in ArgLists(self) :
        /\ Idle /\ Live(self)
        /\ Does("replace_with", self, 0, args, replace_with(Heap, self, args))

Unwrap ==
    \E self \in Nodes :
        /\ Idle /\ Live(self)
        /\ Does("unwrap", self, 0, <<>>, unwrap(Heap, self))

Wrap ==
    \E self \in Nodes, wrap_inside \in Tags :
        /\ Idle /\ Live(self) /\ Live(wrap_inside)
        /\ Does("wrap", self, 0, <<wrap_inside>>, wrap(Heap, self, wrap_inside))

InsertBefore ==
    \E self \in Nodes : \E args \in ArgLists(self) :
        /\ Idle /\ Live(self)
        /\ Does("insert_before", self, 0, args, insert_before(Heap, self, args))

InsertAfter ==
    \E self \in Nodes : \E args \in ArgLists(self) :
        /\ Idle /\ Live(self)
        /\ Does("insert_after", self, 0, args, insert_after(Heap, self, args))

\* decompose is followed on consistent trees only: on inconsistent links it
\* can leave live nodes referring to a decomposed string, and the
\* AttributeError of an attribute read through such a reference is not modelled
Decompose ==
    \E self \in Nodes :
        /\ Idle /\ Live(self) /\ Sound(Heap)
        /\ Does("decompose", self, 0, <<>>, decompose(Heap, self))

Clear ==
    \E self \in Tags, decompose_ \in BOOLEAN :
        /\ Idle /\ Live(self)
        /\ decompose_ => Sound(Heap)
        /\ Does(IF decompose_ THEN "clear_decompose" ELSE "clear", self, 0, <<>>,
                clear(Heap, self, decompose_))

\* the call has returned or raised and the caller goes on. A call that never
\* returns ends the run. Once a call has left the relations of the tree
\* inconsistent the run is followed for MaxUnsoundCalls further calls, as
\* long as they return without error (unsound_calls counts them)
Return ==
    /\ ~Idle
    /\ last.res # "hang"
    /\ Sound(Heap) \/ (last.res = "ok" /\ unsound_calls < MaxUnsoundCalls)
    /\ last' = NoCall
    /\ pre' = Heap
    /\ UNCHANGED <<parent, previous_sibling, next_sibling, previous_element,
                   next_element, contents, decomposed, unsound_calls, it,
                   strainer, reply, constructed>>

Next ==
    \/ Insert \/ DoAppend \/ Extract \/ Decompose \/ ReplaceWith \/ Unwrap
    \/ Wrap \/ InsertBefore \/ InsertAfter \/ Clear \/ Return

Spec == Init /\ [][Next]_vars

\* ---------------------------------------------------------------- a traversal with the tree changing under it
\* A tree is built with append, a generator is taken from one of its nodes,
\* and between two steps of the generator the caller extracts, decomposes or
\* inserts a node, up to MaxMutations times in all. Only calls that return
\* and leave the tree consistent are followed here
Built(r) == r.res = "ok" /\ Sound(r.h)

Build ==
    \E self \in Tags, tag \in Nodes :
        /\ it = NoGenerator
        /\ Idle /\ Live(self) /\ Live(tag)
        /\ Built(append(Heap, self, tag))
        /\ Does("append", self, 0, <<tag>>, append(Heap, self, tag))

\* iter(self.descendants), iter(self.next_elements), ...
Iterate ==
    \E kind \in IterKinds, self \in Nodes :
        /\ it = NoGenerator
        /\ Idle /\ Live(self)
        /\ kind = "descendants" => isTag(self)
        /\ it' = Generator(kind, self)
        /\ UNCHANGED <<parent, previous_sibling, next_sibling, previous_element,
                       next_element, contents, decomposed, last, pre,
                       unsound_calls, strainer, reply, constructed>>

\* next(it)
Step ==
    /\ it.state \in {"created", "suspended"}
    /\ Idle
    /\ it' = step(Heap, it)
    /\ UNCHANGED <<parent, previous_sibling, next_sibling, previous_element,
                   next_element, contents, decomposed, last, pre, unsound_calls,
                   strainer, reply, constructed>>

\* the generator is suspended at a yield and the caller may change the tree
Mutable == it.state = "suspended" /\ it.mutations < MaxMutations /\ Idle

Mutates(op, self, pos, args, r) ==
    /\ Built(r)
    /\ Calls(op, self, pos, args, r)
    /\ it' = [it EXCEPT !.mutations = @ + 1]

ExtractUnder ==
    \E self \in Nodes :
        /\ Mutable /\ Live(self)
        /\ Mutates("extract", self, 0, <<>>, extract(Heap, self, NoIndex))

DecomposeUnder ==
    \E self \in Nodes :
        /\ Mutable /\ Live(self)
        /\ Mutates("decompose", self, 0, <<>>, decompose(Heap, self))

InsertUnder ==
    \E self \in Tags, new_child \in Nodes :
      \E position \in 0 .. Len(contents[self]) :
        /\ Mutable /\ Live(self) /\ Live(new_child)
        /\ Mutates("insert", self, position, <<new_child>>,
                   insert(Heap, self, position, new_child))

NextIter ==
    \/ Build \/ Iterate \/ Step \/ ExtractUnder \/ DecomposeUnder
    \/ InsertUnder \/ Return

SpecIter == Init /\ [][NextIter]_vars

\* ---------------------------------------------------------------- the strainer at work
\* A strainer is constructed and asked about elements and strings; rules are
\* constructed and asked about candidates. `strainer` is the SoupStrainer in
\* hand and `reply` the call in flight with its arguments and what it returned
Replies(op, args, ret) ==
    /\ reply = NoReply
    /\ reply' = [op |-> op, args |-> args, ret |-> ret]
    /\ UNCHANGED <<parent, previous_sibling, next_sibling, previous_element,
                   next_element, contents, decomposed, last, pre, unsound_calls,
                   it, constructed>>

\* the arguments tried
Texts == {Str(s_a), Str(s_b), Str(s_pa), Str(<<>>)}
Candidates == Texts \cup {PyNone}
RuleArgs ==
    [string : {PyNone, Str(s_a), Bytes(b_e_acute)},
     pattern : {PyNone, Pattern(s_a), Str(s_b), Bytes(s_c)},
     function : {PyNone, Function(2), Function(4)},
     present : {PyNone, Bool(TRUE), Bool(FALSE)}]
Objects ==
    {PyNone, Str(s_a), Bytes(b_e_acute), Bool(TRUE), Bool(FALSE), Function(1),
     Pattern(s_a), PyInt(7), PyInt(12), List(<<>>), List(<<Str(s_a), PyInt(7)>>),
     List(<<Str(s_a), List(<<Str(s_b)>>), Bool(TRUE)>>), List(<<Itself>>),
     List(<<Bytes(s_a), Itself, PyNone, Pattern(s_b)>>)}
StrainerNames ==
    {PyNone, Str(s_a), Str(s_pa), Bool(TRUE), Bool(FALSE), Pattern(s_a),
     Function(3), Function(5), List(<<Str(s_a), Str(s_b)>>)}
StrainerAttrs ==
    {Dict(<<>>), Dict(<<Item("class", Str(s_a))>>),
     Dict(<<Item("class", PyNone)>>), Dict(<<Item("id", Bool(TRUE))>>),
     Dict(<<Item("class", Pattern(s_ab))>>),
     Dict(<<Item("class", Function(4))>>), Str(s_b)}
StrainerStrings == {PyNone, Str(s_a), Bool(TRUE)}
StrainerKwargs ==
    {Dict(<<>>), Dict(<<Item("class_", Str(s_b))>>), Dict(<<Item("id", Str(s_a))>>)}
Prefixes == {PyNone, Str(s_p), Str(<<>>)}
Names == {Str(s_a), Str(s_b)}
AttrMaps ==
    {[a \in AttrNames |-> IF a = "class" THEN c ELSE IF a = "id" THEN i ELSE PyNone] :
        c \in {PyNone, Str(s_a), List(<<Str(s_a), Str(s_b)>>),
               List(<<Str(s_b), Str(s_c)>>)},
        i \in {PyNone, Str(s_a)}}
Elements ==
    {Element(p, n, a, s) : p \in Prefixes, n \in Names, a \in AttrMaps,
                           s \in {PyNone, Str(s_a)}}

\* MatchRule(string, pattern, function, present)
NewMatchRule ==
    \E a \in RuleArgs :
        /\ Replies("MatchRule", <<a>>,
                   MatchRule(a.string, a.pattern, a.function, a.present))
        /\ UNCHANGED strainer

\* rule.matches_string(candidate) on a rule that could be constructed
MatchesString ==
    \E a \in RuleArgs, candidate \in Candidates :
        /\ reply = NoReply
        /\ MatchRule(a.string, a.pattern, a.function, a.present).res = "ok"
        /\ Replies("matches_string",
                   <<MatchRule(a.string, a.pattern, a.function, a.present).rule,
                     candidate>>,
                   matches_string(
                       MatchRule(a.string, a.pattern, a.function, a.present).rule,
                       candidate))
        /\ UNCHANGED strainer

\* list(SoupStrainer._make_match_rules(obj, MatchRule))
MakeMatchRules ==
    \E obj \in Objects :
        /\ Replies("_make_match_rules", <<obj>>, _make_match_rules(obj, MaxDepth))
        /\ UNCHANGED strainer

\* SoupStrainer(name, attrs, string, **kwargs)
NewSoupStrainer ==
    \E name_ \in StrainerNames, attrs \in StrainerAttrs,
       string \in StrainerStrings, kwargs \in StrainerKwargs :
        /\ Replies("SoupStrainer", <<name_, attrs, string, kwargs>>, PyNone)
        /\ strainer' = SoupStrainer(name_, attrs, string, kwargs)

MatchesTag ==
    \E tag \in Elements :
        /\ Replies("matches_tag", <<tag>>, matches_tag(strainer, tag))
        /\ UNCHANGED strainer

AllowTagCreation ==
    \E nsprefix \in Prefixes, name_ \in Names, attrs \in AttrMaps :
        /\ Replies("allow_tag_creation", <<nsprefix, name_, attrs>>,
                   allow_tag_creation(strainer, nsprefix, name_, attrs))
        /\ UNCHANGED strainer

AllowStringCreation ==
    \E string \in Texts :
        /\ Replies("allow_string_creation", <<string>>,
                   allow_string_creation(strainer, string))
        /\ UNCHANGED strainer

Search ==
    \E element \in Texts \cup {e \in Elements : e.attrs["class"].kind = "list"} :
        /\ Replies("search", <<element>>, search(strainer, element))
        /\ UNCHANGED strainer

\* self._attribute_match(attr_value, rules) with the rules the strainer has
\* for an attribute
AttrValues ==
    {PyNone, Str(s_a), Str(s_ab), List(<<>>), List(<<Str(s_a)>>),
     List(<<Str(s_ab)>>), List(<<Str(s_a), Str(s_b)>>),
     List(<<Str(s_b), Str(s_c)>>), List(<<Str(s_a), Str(s_b), Str(s_c)>>),
     List(<<Str(s_a), Str(s_c), Str(s_c)>>)}
AttributeMatch ==
    \E attr \in AttrNames, attr_value \in AttrValues :
        /\ reply = NoReply
        /\ Len(strainer.attribute_rules[attr]) > 0
        /\ Replies("_attribute_match",
                   <<attr_value, List(strainer.attribute_rules[attr])>>,
                   _attribute_match_tests(attr_value, strainer.attribute_rules[attr]))
        /\ UNCHANGED strainer

\* the caller has the answer and goes on
Answered ==
    /\ reply # NoReply
    /\ reply' = NoReply
    /\ UNCHANGED <<parent, previous_sibling, next_sibling, previous_element,
                   next_element, contents, decomposed, last, pre, unsound_calls,
                   it, strainer, constructed>>

NextStrainer ==
    \/ NewMatchRule \/ MatchesString \/ MakeMatchRules \/ NewSoupStrainer
    \/ MatchesTag \/ AllowTagCreation \/ AllowStringCreation \/ Search
    \/ AttributeMatch \/ Answered

SpecStrainer == Init /\ [][NextStrainer]_vars

\* ---------------------------------------------------------------- reading a node after decompose
\* A tree is built with append, nodes are decomposed, and the caller reads the
\* navigation relations of any node, decomposed ones included. The read is the
\* call in flight in `reply`
Relations == {"parent", "previous_sibling", "next_sibling", "previous_element",
              "next_element"}
AttributeError == [kind |-> "AttributeError", val |-> <<>>]
Node(n) == IF n = None THEN PyNone ELSE [kind |-> "PageElement", val |-> n]

\* obj.field as the caller sees it
read(h, obj, field) ==
    IF getattr(h, obj, field) = Missing THEN AttributeError
    ELSE Node(getattr(h, obj, field))

AppendThen ==
    \E self \in Tags, tag \in Nodes :
        /\ reply = NoReply
        /\ Idle /\ Live(self) /\ Live(tag)
        /\ Built(append(Heap, self, tag))
        /\ Does("append", self, 0, <<tag>>, append(Heap, self, tag))

DecomposeThen ==
    \E self \in Nodes :
        /\ reply = NoReply
        /\ Idle /\ Live(self)
        /\ Does("decompose", self, 0, <<>>, decompose(Heap, self))

GetAttr ==
    \E obj \in Nodes, field \in Relations :
        /\ Idle
        /\ Replies("getattr", <<[obj |-> obj, field |-> field]>>,
                   read(Heap, obj, field))
        /\ strainer' = strainer

NextRead == AppendThen \/ DecomposeThen \/ GetAttr \/ Return \/ Answered

SpecRead == Init /\ [][NextRead]_vars

\* ---------------------------------------------------------------- searching a tree
\* Objects are constructed with names, prefixes and texts from small sets, a
\* tree is built by appending objects that have no parent yet, and find_all is
\* called on a Tag that has children
s_note == <<110>>
FindConstructions ==
    {[n \in Nodes |->
        CASE n = 1 -> Tag(PyNone, Str(s_a), FALSE, {})
          [] n = 2 -> second
          [] n = 3 -> third
          [] n = 4 -> NavigableString(text)
          [] OTHER -> Comment(s_note)] :
       second \in {Tag(PyNone, Str(s_a), FALSE, {}), Tag(PyNone, Str(s_b), FALSE, {}),
                   Tag(Str(s_p), Str(s_a), FALSE, {})},
       third \in {Tag(PyNone, Str(s_a), FALSE, {}), Tag(PyNone, Str(s_b), FALSE, {})},
       text \in {s_ab, <<>>}}

InitFind == Unbuilt /\ constructed \in FindConstructions

AppendNew ==
    \E self \in Tags, tag \in Nodes :
        /\ reply = NoReply
        /\ Idle /\ parent[tag] = None
        /\ Built(append(Heap, self, tag))
        /\ Does("append", self, 0, <<tag>>, append(Heap, self, tag))

\* the filters and limits tried; limit 0 stands for no limit
NameFilters == {PyNone, Bool(TRUE), Str(s_a), Str(s_b), Str(s_pa), Str(<<>>)}
MaxLimit == 2
FindAll ==
    \E self \in Tags, name_ \in NameFilters, string_ \in {PyNone, Bool(TRUE)},
       limit \in 0 .. MaxLimit :
        /\ reply = NoReply
        /\ Idle /\ contents[self] # <<>>
        /\ string_ = PyNone \/ name_ = PyNone
        /\ Replies("find_all", <<[self |-> self, name |-> name_, string |-> string_,
                                  limit |-> limit]>>,
                   find_all(Heap, constructed, self, name_, string_, limit))
        /\ strainer' = strainer

NextFind == AppendNew \/ FindAll \/ Return \/ Answered

SpecFind == InitFind /\ [][NextFind]_vars

\* ---------------------------------------------------------------- Tag.__eq__
\* element names and string values: nodes come in two spellings, so that
\* distinct objects can be equal
name(n) ==
    IF constructed[n].class = "Tag" THEN constructed[n].name.val
    ELSE constructed[n].value

\* what Tag.__eq__ / str.__eq__ compare: the name (or the text) and, child by
\* child, the contents; the attribute maps are all empty here
RECURSIVE Struct(_, _, _)
Struct(h, n, fuel) ==
    [tag |-> constructed[n].class = "Tag", name |-> name(n),
     contents |-> IF fuel = 0 THEN <<>>
                  ELSE [i \in 1 .. Len(h.contents[n]) |->
                          Struct(h, h.contents[n][i], fuel - 1)]]

eq(h1, a, h2, b) == Struct(h1, a, NumNodes) = Struct(h2, b, NumNodes)

\* ---------------------------------------------------------------- decode
\* Tag.__eq__(self, other) as it is executed: the answer v and depth, the
\* number of __eq__ calls active at the deepest point of the comparison. A
\* string child is compared by str; against a Tag str gives NotImplemented
\* and the Tag's reflected __ne__ answers
Compared(v, depth) == [v |-> v, depth |-> depth]
negate(r) == Compared(~r.v, r.depth)
deeper(r) == Compared(r.v, r.depth + 1)

RECURSIVE __eq__(_, _, _, _)
RECURSIVE children_equal(_, _, _, _, _, _)
child_equal(h, c, my_child, other_child) ==
    IF isinstance_Tag(c, my_child) THEN __eq__(h, c, my_child, other_child)
    ELSE IF isinstance_Tag(c, other_child) THEN __eq__(h, c, other_child, my_child)
    ELSE Compared(c[my_child].value = c[other_child].value, 0)
children_next(h, c, self, other, i, depth, r) ==
    IF ~r.v THEN Compared(FALSE, Max(depth, r.depth))
    ELSE children_equal(h, c, self, other, i + 1, Max(depth, r.depth))
children_equal(h, c, self, other, i, depth) ==
    IF i > Len(h.contents[self]) THEN Compared(TRUE, depth)
    ELSE children_next(h, c, self, other, i, depth,
                       child_equal(h, c, h.contents[self][i], h.contents[other][i]))
__eq__(h, c, self, other) ==
    IF self = other THEN Compared(TRUE, 1)
    ELSE IF other = None THEN Compared(FALSE, 1)
    ELSE IF ~isinstance_Tag(c, other) THEN Compared(FALSE, 1)
    ELSE IF c[self].name # c[other].name THEN Compared(FALSE, 1)
    ELSE IF Len(h.contents[self]) # Len(h.contents[other]) THEN Compared(FALSE, 1)
    ELSE deeper(children_equal(h, c, self, other, 1, 0))

\* c.parent != tag_stack[-1]: Tag.__ne__ is not (self == other); of None the
\* reflected __ne__ of the Tag is asked
__ne__(h, c, self, other) ==
    IF self = None THEN negate(__eq__(h, c, other, self))
    ELSE negate(__eq__(h, c, self, other))

\* mutant: a Tag flagged as void is empty whatever it contains
is_empty_element_whatever_inside(h, c, self) == c[self].can_be_empty_element

\* Tag.is_empty_element
is_empty_element(h, c, self) ==
    Len(h.contents[self]) = 0 /\ c[self].can_be_empty_element

\* Tag.self_and_descendants (no object is hidden)
self_and_descendants(h, self) == <<self>> \o descendants(h, self).out

\* Tag._event_stream: the walk st has a tag_stack, the events yielded so far
\* and the deepest comparison made
Event(event, element) == [event |-> event, element |-> element]
popped(st) ==
    [st EXCEPT !.tag_stack = SubSeq(@, 1, Len(@) - 1),
               !.events = Append(@, Event("END", st.tag_stack[Len(st.tag_stack)]))]
compared(st, r) == [st EXCEPT !.depth = Max(@, r.depth)]

\* while tag_stack and c.parent != tag_stack[-1]
RECURSIVE closing(_, _, _, _)
closing_test(h, c, element, st, r) ==
    IF r.v THEN closing(h, c, element, popped(compared(st, r)))
    ELSE compared(st, r)
closing(h, c, element, st) ==
    IF st.tag_stack = <<>> THEN st
    ELSE closing_test(h, c, element, st,
                      __ne__(h, c, h.parent[element], st.tag_stack[Len(st.tag_stack)]))

\* if isinstance(c, Tag): ... else: yield STRING_ELEMENT_EVENT
yielding(h, c, element, st) ==
    IF ~isinstance_Tag(c, element)
    THEN [st EXCEPT !.events = Append(@, Event("STRING", element))]
    ELSE IF is_empty_element(h, c, element)
    THEN [st EXCEPT !.events = Append(@, Event("EMPTY", element))]
    ELSE [st EXCEPT !.events = Append(@, Event("START", element)),
                    !.tag_stack = Append(@, element)]

\* while tag_stack: after the iterator has ended
RECURSIVE closing_all(_)
closing_all(st) == IF st.tag_stack = <<>> THEN st ELSE closing_all(popped(st))

RECURSIVE _event_stream_loop(_, _, _, _)
_event_stream_loop(h, c, iterator, st) ==
    IF iterator = <<>> THEN closing_all(st)
    ELSE _event_stream_loop(h, c, Tail(iterator),
                            yielding(h, c, Head(iterator),
                                     closing(h, c, Head(iterator), st)))
_event_stream(h, c, self) ==
    _event_stream_loop(h, c, self_and_descendants(h, self),
                       [tag_stack |-> <<>>, events |-> <<>>, depth |-> 0])

\* the default formatter ("minimal"), which bs4/formatter.py defines: '/'
\* closes a void element, a level of indentation is one space, and & < >
\* are replaced by entities
void_element_close_prefix == <<47>>
indent == <<32>>
RECURSIVE substitute(_)
substitute(s) ==
    IF s = <<>> THEN <<>>
    ELSE (CASE Head(s) = 38 -> <<38, 97, 109, 112, 59>>
            [] Head(s) = 60 -> <<38, 108, 116, 59>>
            [] Head(s) = 62 -> <<38, 103, 116, 59>>
            [] OTHER -> <<Head(s)>>) \o substitute(Tail(s))

\* Tag._format_tag without attributes
_format_tag(h, c, self, opening) ==
    <<60>> \o (IF opening THEN <<>> ELSE <<47>>)
      \o (IF truth(c[self].prefix) THEN c[self].prefix.val \o <<58>> ELSE <<>>)
      \o c[self].name.val
      \o (IF is_empty_element(h, c, self) THEN void_element_close_prefix ELSE <<>>)
      \o <<62>>

\* NavigableString.output_ready, PreformattedString.output_ready of a Comment
output_ready(c, self) ==
    IF c[self].class = "Comment"
    THEN <<60, 33, 45, 45>> \o c[self].value \o <<45, 45, 62>>
    ELSE substitute(c[self].value)

\* str.strip()
whitespace == {9, 10, 11, 12, 13, 28, 29, 30, 31, 32}
RECURSIVE lstrip(_)
lstrip(s) == IF s # <<>> /\ Head(s) \in whitespace THEN lstrip(Tail(s)) ELSE s
RECURSIVE rstrip(_)
rstrip(s) ==
    IF s # <<>> /\ s[Len(s)] \in whitespace THEN rstrip(SubSeq(s, 1, Len(s) - 1)) ELSE s
strip(s) == rstrip(lstrip(s))

\* formatter.indent * indent_level
RECURSIVE repeat(_, _)
repeat(s, n) == IF n <= 0 THEN <<>> ELSE s \o repeat(s, n - 1)

\* Tag._indent_string
_indent_string(s, indent_level, indent_before, indent_after) ==
    (IF indent_before /\ indent_level # 0 THEN repeat(indent, indent_level) ELSE <<>>)
      \o s \o (IF indent_after THEN <<10>> ELSE <<>>)

\* Tag._should_pretty_print()
_should_pretty_print(c, self) ==
    \/ c[self].preserve_whitespace_tags = {}
    \/ c[self].name.val \notin c[self].preserve_whitespace_tags

\* Tag.decode: indent_level None is NoIndent. One pass of the loop over the
\* events, d being the pieces (kept with what each was made of), the
\* string_literal_tag and the indent_level
NoIndent == 0 - 1
piece_of(h, c, ev) ==
    CASE ev.event = "END" -> _format_tag(h, c, ev.element, FALSE)
      [] ev.event = "STRING" -> output_ready(c, ev.element)
      [] OTHER -> _format_tag(h, c, ev.element, TRUE)
level_of(ev, indent_level) ==
    IF ev.event = "END" /\ indent_level # NoIndent THEN indent_level - 1 ELSE indent_level
\* mutant: every element that is not pretty-printed ends string literal mode
leaves_at_any_end(c, ev, string_literal_tag) ==
    /\ ev.event = "END" /\ string_literal_tag # None
    /\ ~_should_pretty_print(c, ev.element)
enters(c, ev, string_literal_tag) ==
    /\ ev.event = "START" /\ string_literal_tag = None
    /\ ~_should_pretty_print(c, ev.element)
leaves(c, ev, string_literal_tag) ==
    ev.event = "END" /\ ev.element = string_literal_tag
indent_before(c, ev, string_literal_tag) ==
    IF enters(c, ev, string_literal_tag) THEN TRUE
    ELSE IF leaves(c, ev, string_literal_tag) THEN FALSE
    ELSE string_literal_tag = None
indent_after(c, ev, string_literal_tag) ==
    IF enters(c, ev, string_literal_tag) THEN FALSE
    ELSE IF leaves(c, ev, string_literal_tag) THEN TRUE
    ELSE string_literal_tag = None
string_literal_tag_after(c, ev, string_literal_tag) ==
    IF enters(c, ev, string_literal_tag) THEN ev.element
    ELSE IF leaves(c, ev, string_literal_tag) THEN None
    ELSE string_literal_tag
indented(piece, indent_level, before, after) ==
    IF piece = <<>> THEN piece ELSE _indent_string(piece, indent_level, before, after)
prettiness(c, ev, piece, indent_level, before, after) ==
    IF indent_level = NoIndent \/ ~(before \/ after) THEN piece
    ELSE indented(IF isinstance_Tag(c, ev.element) THEN piece ELSE strip(piece),
                  indent_level, before, after)
decode_piece(c, d, ev, piece, indent_level) ==
    [pieces |-> Append(d.pieces,
                       [event |-> ev.event, element |-> ev.element, piece |-> piece,
                        string_literal_tag |-> d.string_literal_tag,
                        appended |-> prettiness(c, ev, piece, indent_level,
                                                indent_before(c, ev, d.string_literal_tag),
                                                indent_after(c, ev, d.string_literal_tag))]),
     string_literal_tag |-> string_literal_tag_after(c, ev, d.string_literal_tag),
     indent_level |-> IF indent_level # NoIndent /\ ev.event = "START"
                      THEN indent_level + 1 ELSE indent_level]
RECURSIVE decode_loop(_, _, _, _)
decode_loop(h, c, events, d) ==
    IF events = <<>> THEN d
    ELSE decode_loop(h, c, Tail(events),
                     decode_piece(c, d, Head(events), piece_of(h, c, Head(events)),
                                  level_of(Head(events), d.indent_level)))
\* the str returned, with the events of the walk, the depth of the deepest
\* comparison, what became of each event, and the string_literal_tag at the end
decoded(walk, d) ==
    [str |-> Flatten([k \in 1 .. Len(d.pieces) |-> d.pieces[k].appended]),
     events |-> walk.events, depth |-> walk.depth, pieces |-> d.pieces,
     string_literal_tag |-> d.string_literal_tag]
decode_events(h, c, walk, indent_level) ==
    decoded(walk, decode_loop(h, c, walk.events,
                              [pieces |-> <<>>, string_literal_tag |-> None,
                               indent_level |-> indent_level]))
Tag_decode(h, c, self, indent_level) ==
    decode_events(h, c, _event_stream(h, c, self), indent_level)

\* Tags are constructed as a builder does, all with the same
\* preserve_whitespace_tags and some flagged as void; the strings have
\* whitespace at both ends, or nothing else. Trees are built by appending
\* objects that have no parent yet, and decode is called on any Tag
s_text == <<32, 60, 32>>
s_newline == <<10>>
DecodeConstructions ==
    {[n \in Nodes |->
        CASE n = 1 -> Tag(PyNone, Str(s_a), FALSE, preserved)
          [] n = 2 -> Tag(PyNone, Str(names[1]), void[1], preserved)
          [] n = 3 -> Tag(PyNone, Str(names[2]), void[2], preserved)
          [] n = 4 -> NavigableString(s_text)
          [] OTHER -> NavigableString(s_newline)] :
       names \in {<<s_a, s_a>>, <<s_a, s_b>>, <<s_b, s_a>>, <<s_b, s_b>>},
       void \in {<<FALSE, FALSE>>, <<FALSE, TRUE>>, <<TRUE, FALSE>>, <<TRUE, TRUE>>},
       preserved \in {{}, {s_a}, {s_b}}}

InitDecode == Unbuilt /\ constructed \in DecodeConstructions

IndentLevels == {NoIndent, 0, 1}
Decode ==
    \E self \in Nodes, indent_level \in IndentLevels :
        /\ reply = NoReply
        /\ Idle /\ isinstance_Tag(constructed, self)
        /\ Replies("decode", <<[self |-> self, indent_level |-> indent_level]>>,
                   Tag_decode(Heap, constructed, self, indent_level))
        /\ strainer' = strainer

NextDecode == AppendNew \/ Decode \/ Return \/ Answered

SpecDecode == InitDecode /\ [][NextDecode]_vars

\* ---------------------------------------------------------------- claims
Returned == last # NoCall /\ last.res = "ok"
Raised == last # NoCall /\ last.res = "error"
MutationOps == {"insert", "append", "extract", "replace_with", "wrap", "unwrap",
                "insert_before", "insert_after", "clear", "clear_decompose"}
Others(s, x) == SelectSeq(s, LAMBDA y : y # x)
LastOf(s) == s[Len(s)]

\* C1: after any sequence of mutation calls that return without error,
\* next_element from the root of every tree is the pre-order of the child
\* lists and previous_element from the last node is its reverse
C1_OrderAfterMutations ==
    (Returned /\ last.op \in MutationOps) => OrderAgrees(Heap)

C3_ErrorLeavesTreeUnchanged ==
    (Raised /\ last.op \in {"insert", "replace_with", "wrap", "unwrap",
                            "insert_before", "insert_after"})
        => Heap = pre

\* C4: no call of insert, replace_with, wrap, insert_before or insert_after
\* that returns without error makes a node its own ancestor
C4_NoCycle ==
    (Returned /\ last.op \in {"insert", "replace_with", "wrap", "insert_before",
                              "insert_after"}) => Acyclic(Heap)

\* C5: Tag.insert(position, node) of a node that is neither the tag, one of
\* its ancestors nor already its child returns for every integer position,
\* and the node is then at index min(max(position, 0), len(children))
C5_InsertClamps ==
    (/\ last.op = "insert"
     /\ Sound(pre)
     /\ last.args[1] \in Nodes \ ({last.self} \cup Ancestors(pre, last.self))
     /\ pre.parent[last.args[1]] # last.self)
        => LET old == pre.contents[last.self]
               k == Min(Max(last.pos, 0), Len(old))
           IN /\ last.res = "ok"
              /\ contents[last.self] =
                   SubSeq(old, 1, k) \o <<last.args[1]>> \o SubSeq(old, k + 1, Len(old))
              /\ Sound(Heap)

\* C6: extract of an attached node returns; the node is gone from its former
\* parent's child list, its parent, sibling links and previous_element and
\* the next_element of its last descendant are None, the order links inside
\* its subtree are as before, and its former neighbours in document order,
\* and its former sibling neighbours, are linked to each other
C6_Extract ==
    (last.op = "extract" /\ pre.parent[last.self] # None /\ Sound(pre))
        => LET n == last.self
               p == pre.parent[n]
               sub == Preorder(pre, n, NumNodes)
               ld == LastOf(sub)
               before == pre.previous_element[n]
               after == pre.next_element[ld]
           IN /\ last.res = "ok"
              /\ contents[p] = Others(pre.contents[p], n)
              /\ parent[n] = None
              /\ previous_sibling[n] = None /\ next_sibling[n] = None
              /\ previous_element[n] = None /\ next_element[ld] = None
              /\ \A m \in Range(sub) :
                   /\ m # ld => next_element[m] = pre.next_element[m]
                   /\ m # n => previous_element[m] = pre.previous_element[m]
              /\ before # None => next_element[before] = after
              /\ after # None => previous_element[after] = before
              /\ pre.previous_sibling[n] # None =>
                   next_sibling[pre.previous_sibling[n]] = pre.next_sibling[n]
              /\ pre.next_sibling[n] # None =>
                   previous_sibling[pre.next_sibling[n]] = pre.previous_sibling[n]

\* an extracted node that had children, a previous and a next sibling
C6_Witness ==
    /\ last.op = "extract" /\ last.res = "ok"
    /\ pre.parent[last.self] # None /\ Sound(pre)
    /\ pre.contents[last.self] # <<>>
    /\ pre.previous_sibling[last.self] # None
    /\ pre.next_sibling[last.self] # None

\* C7: extracting an attached node and inserting it back into its parent at
\* its index gives a tree equal (names and child order at every level) to
\* the tree before
ExtractThenInsert(h, n) ==
    LET e == extract(h, n, NoIndex)
    IN IF e.res # "ok" THEN e
       ELSE insert(e.h, h.parent[n], index(h, h.parent[n], n), n)

C7_ExtractInsertRestores ==
    (Idle /\ Sound(Heap)) =>
        \A n \in Nodes : parent[n] # None =>
            LET r == ExtractThenInsert(Heap, n)
            IN /\ r.res = "ok"
               /\ \A m \in Nodes : eq(r.h, m, Heap, m)

C7_Witness ==
    /\ Idle /\ Sound(Heap)
    /\ \E n \in Nodes :
         /\ parent[n] # None /\ contents[n] # <<>>
         /\ previous_sibling[n] # None /\ next_sibling[n] # None
         /\ ~eq(extract(Heap, n, NoIndex).h, parent[n], Heap, parent[n])
         /\ eq(ExtractThenInsert(Heap, n).h, parent[n], Heap, parent[n])

C9_ReplaceWith ==
    (/\ last.op = "replace_with"
     /\ Sound(pre)
     /\ pre.parent[last.self] # None
     /\ \A i \in 1 .. Len(last.args) :
          /\ last.args[i] \in Nodes \ {last.self}
          /\ last.args[i] \notin Ancestors(pre, last.self)
          /\ \A j \in 1 .. Len(last.args) : i # j => last.args[i] # last.args[j])
        => LET n == last.self
               p == pre.parent[n]
               old == pre.contents[p]
               i == index(pre, p, n)
               keep(s) == SelectSeq(s, LAMBDA y : \A j \in 1 .. Len(last.args) : y # last.args[j])
           IN /\ last.res = "ok"
              /\ parent[n] = None
              /\ contents[p] = keep(SubSeq(old, 1, i)) \o last.args
                                 \o keep(SubSeq(old, i + 2, Len(old)))

\* C10: unwrap of an element n with parent p puts n's children, in order, in
\* n's place in p's child list and leaves n detached and childless; unwrap
\* of a node with no parent raises
C10_Unwrap ==
    (last.op = "unwrap" /\ Sound(pre))
        => LET n == last.self
               p == pre.parent[n]
           IN /\ p = None => (last.res = "error" /\ Heap = pre)
              /\ (p # None /\ isTag(n)) =>
                   LET old == pre.contents[p]
                       i == index(pre, p, n)
                   IN /\ last.res = "ok"
                      /\ contents[p] = SubSeq(old, 1, i) \o pre.contents[n]
                                         \o SubSeq(old, i + 2, Len(old))
                      /\ parent[n] = None /\ contents[n] = <<>>
                      /\ previous_sibling[n] = None /\ next_sibling[n] = None
                      /\ previous_element[n] = None /\ next_element[n] = None
                      /\ Sound(Heap)

\* an unwrapped element that had two children and a sibling before it
C10_Witness ==
    /\ last.op = "unwrap" /\ last.res = "ok" /\ Sound(pre)
    /\ Len(pre.contents[last.self]) >= 2
    /\ pre.previous_sibling[last.self] # None
    /\ Len(contents[pre.parent[last.self]]) = 3


\* C11: in a tree reached by mutations that returned without error, the
\* descendants of a Tag e are the nodes of the subtree of e other than e, each
\* once, in pre-order, and nothing else, wherever e stands
C11_Descendants ==
    (Idle \/ Returned) =>
        \A e \in Tags : Live(e) =>
            descendants(Heap, e) =
                [out |-> Tail(Preorder(Heap, e, NumNodes)), state |-> "ended"]

\* C11 on trees whose relations agree
C11_DescendantsOfConsistentTrees == Sound(Heap) => C11_Descendants

\* C12: when the tree is changed by extract, decompose or insert between two
\* steps of a traversal generator, no step raises: each step yields a node or
\* ends the traversal
C12_StepsNeverRaise ==
    /\ it.state # "raised"
    /\ it.state = "suspended" => isPageElement(it.current)

\* ---------------------------------------------------------------- claims on the strainer
\* rule matches the candidate v: equality for an exact rule, the pattern
\* found anywhere in v for a pattern rule, v being there or not for a presence
\* rule, the predicate's verdict for a predicate rule
Matches(rule, v) ==
    CASE rule.string.kind = "str" -> v.kind = "str" /\ v.val = rule.string.val
      [] rule.pattern.kind = "Pattern" ->
            /\ v.kind = "str"
            /\ \E i \in 1 .. (Len(v.val) + 1) : \E j \in (i - 1) .. Len(v.val) :
                  SubSeq(v.val, i, j) = rule.pattern.val
      [] rule.present.kind = "bool" -> (rule.present.val = <<1>>) = (v.kind # "None")
      [] OTHER -> Apply(rule.function, v)

\* a name rule matches the element by its bare name or its prefix:name; a
\* predicate is asked about the element
NameMatches(rule, e) ==
    \/ IF rule.function.kind = "function" THEN Apply(rule.function, e)
       ELSE Matches(rule, e.name)
    \/ /\ prefixed(e.prefix, e.name).kind = "str"
       /\ Matches(rule, prefixed(e.prefix, e.name))

\* an attribute rule matches a value: a token list by one of its tokens or
\* by the tokens joined with spaces
ValueMatches(rule, value) ==
    IF value.kind = "list"
    THEN \/ \E i \in 1 .. Len(value.val) : Matches(rule, value.val[i])
         \/ Len(value.val) > 1 /\ Matches(rule, Str(join(value.val)))
    ELSE Matches(rule, value)

SomeRule(rules, P(_)) == \E i \in 1 .. Len(rules) : P(rules[i])

Supplied(a) ==
    Cardinality({f \in {"string", "pattern", "function", "present"} :
                   a[f].kind # "None"})

\* C14: MatchRule(...) succeeds exactly when one of string, pattern, function
\* and present is supplied and raises ValueError otherwise
C14_MatchRuleModes ==
    reply.op = "MatchRule" =>
        /\ reply.ret.res = "ok" <=> Supplied(reply.args[1]) = 1
        /\ reply.ret.res # "ok" => reply.ret.res = "ValueError"

C14_Witness ==
    /\ reply.op = "MatchRule"
    /\ Supplied(reply.args[1]) = 2
    /\ reply.ret.res = "ValueError"

\* C15: matches_string(v) is equality for an exact rule, search (false on
\* None) for a pattern rule, v is not None / v is None for a presence rule
\* and the predicate's truth value for a predicate rule
C15_MatchesString ==
    reply.op = "matches_string" =>
        reply.ret.v = Matches(reply.args[1], reply.args[2])

C15_Witness ==
    /\ reply.op = "matches_string"
    /\ reply.args[1].pattern.kind = "Pattern"
    /\ reply.args[2].kind = "str"
    /\ reply.args[2].val # reply.args[1].pattern.val
    /\ reply.ret.v

\* the rule each kind of object stands for
Exact(text) ==
    [string |-> Str(text), pattern |-> PyNone, function |-> PyNone,
     present |-> PyNone]
RulesFor(o) ==
    CASE o.kind = "None" -> <<>>
      [] o.kind = "str" -> <<Exact(o.val)>>
      [] o.kind = "bytes" ->
            <<Exact(IF o.val = b_e_acute THEN s_e_acute ELSE o.val)>>
      [] o.kind = "bool" -> <<[Exact(<<>>) EXCEPT !.string = PyNone, !.present = o]>>
      [] o.kind = "function" ->
            <<[Exact(<<>>) EXCEPT !.string = PyNone, !.function = o]>>
      [] o.kind = "Pattern" ->
            <<[Exact(<<>>) EXCEPT !.string = PyNone, !.pattern = o]>>
      [] o.kind = "int" -> <<Exact(IF o.val = <<7>> THEN <<55>> ELSE <<49, 50>>)>>
      [] OTHER -> <<>>
Normalized(obj) ==
    IF obj.kind = "list"
    THEN Flatten([i \in 1 .. Len(obj.val) |-> RulesFor(obj.val[i])])
    ELSE RulesFor(obj)

\* C16: _make_match_rules ends and gives no rule for None, one rule for a
\* string, bytes, boolean, callable, pattern or other object, and for a list
\* the rules of its items in order, nested lists left out, also when the list
\* contains itself
C16_MakeMatchRules ==
    reply.op = "_make_match_rules" =>
        /\ reply.ret.state = "ended"
        /\ reply.ret.rules = Normalized(reply.args[1])

C16_Witness ==
    /\ reply.op = "_make_match_rules"
    /\ reply.args[1].kind = "list"
    /\ \E i \in 1 .. Len(reply.args[1].val) : reply.args[1].val[i].kind = "itself"
    /\ Len(reply.ret.rules) = 2

\* the strainer has exact, pattern and presence rules only
NoPredicate(self) ==
    /\ \A i \in 1 .. Len(self.name_rules) : self.name_rules[i].function.kind = "None"
    /\ \A a \in AttrNames : \A i \in 1 .. Len(self.attribute_rules[a]) :
          self.attribute_rules[a][i].function.kind = "None"

\* C17: allow_tag_creation is false when there is a string rule; without
\* string rules and predicates (also without any rule) it answers as
\* matches_tag does on the element made of the same prefix, name and attributes
C17_AllowTagCreation ==
    reply.op = "allow_tag_creation" =>
        /\ Len(strainer.string_rules) > 0 => reply.ret = FALSE
        /\ Len(strainer.string_rules) = 0 /\ NoPredicate(strainer) =>
              reply.ret = matches_tag(strainer,
                                      Element(reply.args[1], reply.args[2],
                                              reply.args[3], PyNone)).v

\* C18: with string rules only, matches_tag is false of every element; with a
\* name or attribute rule, search and allow_string_creation are false of
\* every text node
C18_TagsAndStringsApart ==
    /\ reply.op = "matches_tag" /\ Len(strainer.string_rules) > 0
          /\ Len(strainer.name_rules) = 0 /\ ~has_attribute_rules(strainer)
          => ~reply.ret.v
    /\ reply.op \in {"search", "allow_string_creation"}
          /\ reply.args[1].kind = "str"
          /\ (Len(strainer.name_rules) > 0 \/ has_attribute_rules(strainer))
          => reply.ret = FALSE

C18_Witness ==
    /\ reply.op = "allow_string_creation"
    /\ Len(strainer.name_rules) > 0
    /\ Len(strainer.string_rules) > 0
    /\ matches_any_string_rule(strainer, reply.args[1])
    /\ reply.ret = FALSE

\* the element has the token among the values of its class attribute
HasClass(e, token) ==
    \/ e.attrs["class"] = Str(token)
    \/ /\ e.attrs["class"].kind = "list"
       /\ \E i \in 1 .. Len(e.attrs["class"].val) :
             e.attrs["class"].val[i] = Str(token)

\* C19: the rules given for class through attrs and through class_ are both
\* kept: SoupStrainer(attrs={"class": "a"}, class_="b") matches every element
\* whose class has the token "a" or the token "b"
C19_AttrsAndKwargsAdd ==
    /\ reply.op = "SoupStrainer"
    /\ reply.args[1] = PyNone /\ reply.args[3] = PyNone
    /\ reply.args[2] = Dict(<<Item("class", Str(s_a))>>)
    /\ reply.args[4] = Dict(<<Item("class_", Str(s_b))>>)
    => /\ strainer.attribute_rules["class"] = <<Exact(s_a), Exact(s_b)>>
       /\ \A e \in Elements :
             HasClass(e, s_a) \/ HasClass(e, s_b) => matches_tag(strainer, e).v

C19_Witness ==
    /\ reply.op = "SoupStrainer"
    /\ reply.args[1] = PyNone /\ reply.args[3] = PyNone
    /\ reply.args[2] = Dict(<<Item("class", Str(s_a))>>)
    /\ reply.args[4] = Dict(<<Item("class_", Str(s_b))>>)
    /\ Len(strainer.attribute_rules["class"]) = 2

\* C20: while matches_tag runs, the predicate of a name rule is called with
\* the element only, never with a string or None
C20_NamePredicateGetsElement ==
    reply.op = "matches_tag" =>
        \A i \in 1 .. Len(reply.ret.calls) : reply.ret.calls[i] = "Tag"

\* ---------------------------------------------------------------- claims on detached nodes and re-insertion
\* C24: extract of a node that has no parent, in a consistent tree, returns
\* and changes no relation and no child list of any node; so a second
\* extract right after a first one changes nothing, and so does the extract
\* that insert_before and insert_after make of an argument with no parent
C24_ExtractOfDetached ==
    /\ (last.op = "extract" /\ pre.parent[last.self] = None /\ Sound(pre))
         => (last.res = "ok" /\ Heap = pre)
    /\ (Idle /\ Sound(Heap)) =>
         \A n \in Nodes :
            Live(n) =>
              /\ parent[n] = None => extract(Heap, n, NoIndex) = Ok(Heap)
              /\ LET once == extract(Heap, n, NoIndex)
                 IN /\ once.res = "ok"
                    /\ extract(once.h, n, NoIndex) = once

\* a node with children and no parent has been extracted while another node has
\* children too
C24_Witness ==
    /\ last.op = "extract" /\ last.res = "ok"
    /\ pre.parent[last.self] = None /\ Sound(pre)
    /\ pre.contents[last.self] # <<>>
    /\ \E m \in Nodes : m # last.self /\ pre.parent[m] = None /\ pre.contents[m] # <<>>

\* C28: parent.insert(p, node) with node a child of parent at index i and
\* 0 <= p <= len(parent.contents), in a consistent tree, returns; the other
\* children keep their relative order and node is immediately before the
\* child that was at index p before the call (last when p is the length);
\* when p is i or i + 1 the child list is as before
C28_InsertOfOwnChild ==
    (/\ last.op = "insert" /\ last.args[1] # None /\ Sound(pre)
     /\ pre.parent[last.args[1]] = last.self
     /\ 0 <= last.pos /\ last.pos <= Len(pre.contents[last.self]))
        => LET node == last.args[1]
               old == pre.contents[last.self]
               i == index(pre, last.self, node)
           IN /\ last.res = "ok"
              /\ contents[last.self] =
                   Others(SubSeq(old, 1, last.pos), node) \o <<node>>
                     \o Others(SubSeq(old, last.pos + 1, Len(old)), node)
              /\ last.pos \in {i, i + 1} => contents[last.self] = old
              /\ Sound(Heap)

\* a child has been moved down past two of its siblings, and not to the end
C28_Witness ==
    /\ last.op = "insert" /\ last.res = "ok" /\ last.args[1] # None /\ Sound(pre)
    /\ pre.parent[last.args[1]] = last.self
    /\ last.pos < Len(pre.contents[last.self])
    /\ last.pos > index(pre, last.self, last.args[1]) + 2

\* ---------------------------------------------------------------- claims on decomposed nodes
\* C25: reading parent, previous_sibling, next_sibling, previous_element or
\* next_element of a decomposed node raises, whether the node is a Tag or a
\* NavigableString
C25_ReadOfDecomposedRaises ==
    (reply.op = "getattr" /\ decomposed[reply.args[1].obj])
        => reply.ret = AttributeError

\* C25 for strings: the read of a decomposed NavigableString raises
C25_ReadOfDecomposedString ==
    (reply.op = "getattr" /\ decomposed[reply.args[1].obj] /\ ~isTag(reply.args[1].obj))
        => reply.ret = AttributeError

\* what the read of a decomposed Tag gives: None, whatever the relation was
C25_ReadOfDecomposedTag ==
    (reply.op = "getattr" /\ decomposed[reply.args[1].obj] /\ isTag(reply.args[1].obj))
        => reply.ret = PyNone

\* ---------------------------------------------------------------- claims on attribute values and the name short-cut
\* the tokens of an attribute value: the list itself, or the one value
Tokens(attr_value) ==
    IF attr_value.kind = "list" THEN attr_value.val ELSE <<attr_value>>

\* C29: _attribute_match tests the rules against the single tokens first,
\* rule by rule and token by token, and stops at the first test that
\* succeeds. Only when the value has more than one token and every one of
\* these tests has failed does it go on, and then it tests the rules, each
\* at most once, against the tokens joined by single spaces. The answer is
\* true when a rule matches a token or, for more than one token, the joined
\* string; the pattern "a b" matches ["a", "b"], through the joined string
\* only. A value of one token, in a list or not, is never tested again
C29_JoinedRetry ==
    reply.op = "_attribute_match" =>
        LET rules == reply.args[2].val
            tokens == Tokens(reply.args[1])
            joined == Str(join(tokens))
            tests == reply.ret.tests
            pass == Len(rules) * Len(tokens)
            token_matched == \E i \in 1 .. Len(rules) : \E j \in 1 .. Len(tokens) :
                                Matches(rules[i], tokens[j])
        IN /\ reply.ret.v = (\/ token_matched
                             \/ /\ Len(tokens) > 1
                                /\ \E i \in 1 .. Len(rules) : Matches(rules[i], joined))
           /\ reply.ret.v => Matches(rules[tests[Len(tests)].rule], tests[Len(tests)].value)
           /\ \A k \in 1 .. Min(Len(tests), pass) :
                 tests[k] = Test(((k - 1) \div Len(tokens)) + 1,
                                 tokens[((k - 1) % Len(tokens)) + 1])
           /\ \A k \in (pass + 1) .. Len(tests) : tests[k] = Test(k - pass, joined)
           /\ Len(tests) <= pass + Len(rules)
           /\ (Len(tests) > pass) = (Len(tokens) > 1 /\ ~token_matched)
           /\ (/\ Len(rules) = 1 /\ rules[1].pattern = Pattern(s_ab)
               /\ reply.args[1] = List(<<Str(s_a), Str(s_b)>>))
                 => /\ reply.ret.v
                    /\ tests = <<Test(1, Str(s_a)), Test(1, Str(s_b)), Test(1, Str(s_ab))>>

\* the pattern "a b" has matched ["a", "b"] at the third test
C29_Witness ==
    /\ reply.op = "_attribute_match"
    /\ reply.args[1] = List(<<Str(s_a), Str(s_b)>>)
    /\ Len(reply.args[2].val) = 1
    /\ reply.args[2].val[1].pattern = Pattern(s_ab)
    /\ reply.ret.v
    /\ Len(reply.ret.tests) = 3

\* C30: matches_tag answers as it would without the early return for a
\* single exact name rule: False when the strainer has neither name nor
\* attribute rules, and otherwise what the loop over the name rules, the
\* attribute rules and the string rules gives, predicate calls included
C30_ShortCutChangesNothing ==
    reply.op = "matches_tag" =>
        reply.ret = IF Len(strainer.name_rules) = 0 /\ ~has_attribute_rules(strainer)
                    THEN Answer(FALSE, <<>>)
                    ELSE matches_tag_rules(strainer, reply.args[1])

\* the early return has been taken for an element every attribute rule and
\* string rule of the strainer matches
C30_Witness ==
    /\ reply.op = "matches_tag"
    /\ name_differs(strainer, reply.args[1])
    /\ has_attribute_rules(strainer)
    /\ attributes_match(strainer, reply.args[1].attrs)
    /\ Len(strainer.string_rules) > 0
    /\ matches_any_string_rule(strainer, reply.args[1].string)
    /\ ~reply.ret.v

\* ---------------------------------------------------------------- claims on find_all
\* C21: find_all(string=True) returns only strings of the default interesting
\* kinds (NavigableString, not Comment): with <div><p>hello</p><!--note--></div>
\* the result is the one string inside p
C21_OnlyInterestingStrings ==
    (reply.op = "find_all" /\ reply.args[1].string = Bool(TRUE))
        => \A k \in 1 .. Len(reply.ret) :
              constructed[reply.ret[k]].class = "NavigableString"

\* what find_all(string=True) returns: every string under the Tag that is not
\* empty, a Comment like any other, in document order and up to the limit
C21_EveryStringThatIsNotEmpty ==
    (reply.op = "find_all" /\ reply.args[1].string = Bool(TRUE))
        => LET under == Tail(Preorder(Heap, reply.args[1].self, NumNodes))
               strings == SelectSeq(under, LAMBDA n : /\ constructed[n].class # "Tag"
                                                      /\ constructed[n].value # <<>>)
           IN reply.ret = IF reply.args[1].limit = 0 THEN strings
                          ELSE SubSeq(strings, 1, Min(reply.args[1].limit, Len(strings)))

\* find_all(string=True) on <t><u>text</u><!--note--></t> has returned the
\* string and the Comment
C21_Witness ==
    /\ reply.op = "find_all" /\ reply.args[1].string = Bool(TRUE)
    /\ reply.args[1].limit = 0
    /\ Len(contents[reply.args[1].self]) = 2
    /\ contents[contents[reply.args[1].self][1]] = <<4>>
    /\ contents[reply.args[1].self][2] = 5
    /\ constructed[4].value # <<>>
    /\ reply.ret = <<4, 5>>

\* C22: find_all(name, limit=k) with k >= 1 is the first min(k, n) elements of
\* find_all(name), n being its length, for the name filters None, True and
\* any str
C22_LimitIsPrefix ==
    (reply.op = "find_all" /\ reply.args[1].string = PyNone /\ reply.args[1].limit >= 1)
        => LET all == find_all(Heap, constructed, reply.args[1].self,
                               reply.args[1].name, PyNone, 0)
           IN reply.ret = SubSeq(all, 1, Min(reply.args[1].limit, Len(all)))

\* C22 for the filters None, True and the strs that are not empty
C22_LimitIsPrefixUnlessEmptyName ==
    (reply.op = "find_all" /\ reply.args[1].name = Str(<<>>)) \/ C22_LimitIsPrefix

\* find_all(name) is the Tags under self, in document order, that the name
\* selects: all for None and True, and for a str those whose name, or
\* prefix:name, is the str, or whose name and prefix are its two parts
FindAllSelectsByName ==
    (reply.op = "find_all" /\ reply.args[1].string = PyNone /\ reply.args[1].limit = 0)
        => LET f == reply.args[1].name
               under == Tail(Preorder(Heap, reply.args[1].self, NumNodes))
               named(n) ==
                  /\ constructed[n].class = "Tag"
                  /\ \/ f.kind # "str"
                     \/ constructed[n].name = f
                     \/ /\ truth(constructed[n].prefix)
                        /\ constructed[n].prefix.val \o <<58>> \o constructed[n].name.val = f.val
           IN reply.ret = SelectSeq(under, named)

\* ---------------------------------------------------------------- claims on decode
\* where in the events of a walk an event of a kind is yielded for a node
Positions(events, kind, n) ==
    {k \in 1 .. Len(events) : events[k].event = kind /\ events[k].element = n}
Position(events, kind, n) == CHOOSE k \in Positions(events, kind, n) : TRUE
Nested(h, events, n) ==
    /\ Position(events, "START", n) < Position(events, "END", n)
    /\ \A k \in 1 .. Len(events) :
          (Position(events, "START", n) < k /\ k < Position(events, "END", n))
             <=> events[k].element \in Subtree(h, n) \ {n}

\* C27: the walk yields the nodes of the subtree in document order, one
\* STRING event for a string, one EMPTY event for a childless element flagged
\* as void, and one START and one END event for every other element; all the
\* events between the START and the END of an element are those of its
\* descendants, and all events of its descendants are between them
C27_EventsNested ==
    reply.op = "decode" =>
       LET events == reply.ret.events
           yielded == SelectSeq(events, LAMBDA e : e.event # "END")
           order == Preorder(Heap, reply.args[1].self, NumNodes)
           times(n) == Cardinality({k \in 1 .. Len(events) : events[k].element = n})
       IN /\ [k \in 1 .. Len(yielded) |-> yielded[k].element] = order
          /\ \A n \in Range(order) :
                IF ~isinstance_Tag(constructed, n)
                THEN times(n) = 1 /\ Positions(events, "STRING", n) # {}
                ELSE IF contents[n] = <<>> /\ constructed[n].can_be_empty_element
                THEN times(n) = 1 /\ Positions(events, "EMPTY", n) # {}
                ELSE /\ times(n) = 2
                     /\ Positions(events, "START", n) # {}
                     /\ Positions(events, "END", n) # {}
                     /\ Nested(Heap, events, n)

\* a walk has closed an element, then yielded a string of its parent, and has
\* yielded an EMPTY event for a void element that is inside two others
C27_Witness ==
    /\ reply.op = "decode"
    /\ \E k \in 2 .. Len(reply.ret.events) :
          /\ reply.ret.events[k].event = "STRING"
          /\ reply.ret.events[k - 1].event = "END"
    /\ \E k \in 3 .. Len(reply.ret.events) :
          /\ reply.ret.events[k].event = "EMPTY"
          /\ reply.ret.events[k - 1].event = "START"
          /\ reply.ret.events[k - 2].event = "START"

\* the elements that are not pretty-printed and are open when event k is
\* processed: their START is before k and their END is not
Literal(events, k) ==
    {n \in Nodes : /\ isinstance_Tag(constructed, n)
                   /\ ~_should_pretty_print(constructed, n)
                   /\ \E i \in Positions(events, "START", n) : i < k
                   /\ \A j \in Positions(events, "END", n) : k <= j}
Outermost(events, open) ==
    IF open = {} THEN None
    ELSE CHOOSE n \in open :
            \A m \in open : Position(events, "START", n) <= Position(events, "START", m)

\* C23: in a decode with an indent_level, every piece between the START and
\* the END of an element that is not pretty-printed is appended as it was
\* made; string_literal_tag, when an event is processed, is the outermost
\* open element that is not pretty-printed (none if there is none), and it is
\* None after the walk
C23_LiteralModeUntouched ==
    (reply.op = "decode" /\ reply.args[1].indent_level # NoIndent) =>
       /\ \A k \in 1 .. Len(reply.ret.pieces) :
             /\ reply.ret.pieces[k].string_literal_tag
                   = Outermost(reply.ret.events, Literal(reply.ret.events, k))
             /\ (\E n \in Literal(reply.ret.events, k) : reply.ret.pieces[k].element # n)
                   => reply.ret.pieces[k].appended = reply.ret.pieces[k].piece
       /\ reply.ret.string_literal_tag = None

\* inside an element that is not pretty-printed another one has ended, and the
\* string after it, which has whitespace at its ends, was appended as it is
C23_Witness ==
    /\ reply.op = "decode" /\ reply.args[1].indent_level # NoIndent
    /\ \E k \in 2 .. Len(reply.ret.pieces) :
          /\ reply.ret.pieces[k].event = "STRING"
          /\ reply.ret.pieces[k].string_literal_tag # None
          /\ strip(reply.ret.pieces[k].piece) # reply.ret.pieces[k].piece
          /\ reply.ret.pieces[k].appended = reply.ret.pieces[k].piece
          /\ reply.ret.pieces[k - 1].event = "END"
          /\ ~_should_pretty_print(constructed, reply.ret.pieces[k - 1].element)

\* C26: the calls made while serializing nest no deeper than a constant,
\* whatever the depth of the tree: the comparison of a parent with the top of
\* the stack is one call
C26_ConstantDepth ==
    reply.op = "decode" => reply.ret.depth <= 1

\* the comparisons of a walk nest at most as deep as the elements of the tree
\* do, and as deep as that in some trees
C26_DepthOfTheTree ==
    reply.op = "decode" =>
        \E n \in Subtree(Heap, reply.args[1].self) :
            reply.ret.depth <= Cardinality(Ancestors(Heap, n) \cap Subtree(Heap, reply.args[1].self))

====
